---- MODULE Spec2Model ----
(***************************************************************************)
(* A model of chessadvent: the Board (storage, scroll, resize, move/apply, *)
(* trial copies, state id, dump/load) and the move generator get_moves     *)
(* with its bounce-aware ray walker.                                       *)
(*                                                                         *)
(* Python values are represented as follows.  None is the record None.     *)
(* A Square is [char |-> c], a Piece is [char |-> c, team |-> t], a Move   *)
(* is [x, y, dir].  An Optional[int] is a sequence: <<>> for None and      *)
(* <<i>> for the integer i.  Lists are sequences; Python's 0-based index i *)
(* is the sequence index i + 1.  The eight pawn glyphs of Piece.PAWN_CHARS *)
(* are written with ASCII stand-ins, one string per glyph, in the source's *)
(* order.                                                                  *)
(***************************************************************************)
EXTENDS Integers, Sequences, FiniteSets, TLC

None == [none |-> TRUE]

Range(s) == {s[i] : i \in 1..Len(s)}

Min(a, b) == IF a < b THEN a ELSE b

Max(a, b) == IF a < b THEN b ELSE a

\* Python's s.index(e), 0-based
IndexOf(s, e) == (CHOOSE i \in 1..Len(s) : s[i] = e /\ \A j \in 1..(i - 1) : s[j] # e) - 1

\* Python's s[i:j] for a list s and integers i, j (negative indices count
\* from the end, out-of-range indices are clamped)
PySlice(s, i, j) ==
    LET n  == Len(s)
        lo == IF i < 0 THEN Max(i + n, 0) ELSE Min(i, n)
        hi == IF j < 0 THEN Max(j + n, 0) ELSE Min(j, n)
    IN  IF lo >= hi THEN <<>> ELSE SubSeq(s, lo + 1, hi)

\* Python's [v] * n (empty when n <= 0)
Repeat(v, n) == [i \in 1..Max(n, 0) |-> v]

RECURSIVE Flatten(_)
\* the concatenation of a list of lists, as "for line in lines: out += line"
Flatten(lines) ==
    IF lines = <<>> THEN <<>> ELSE Head(lines) \o Flatten(Tail(lines))

(***************************************************************************)
(* moves.py                                                                *)
(***************************************************************************)
MOVE_N == 0

MOVE_NE == 1

MOVE_E == 2

MOVE_SE == 3

MOVE_S == 4

MOVE_SW == 5

MOVE_W == 6

MOVE_NW == 7

MoveDirs == 0..7

MOVE_DIRS_TO_COORDS ==
    << <<0, -1>>, <<1, -1>>, <<1, 0>>, <<1, 1>>,
       <<0, 1>>, <<-1, 1>>, <<-1, 0>>, <<-1, -1>> >>

Move(x, y, dir) == [x |-> x, y |-> y, dir |-> dir]

(***************************************************************************)
(* pieces.py                                                               *)
(***************************************************************************)
DIRS == <<"u", "l", "d", "r">>

TYPES == <<"K", "Q", "B", "N", "R", "P">>

\* up, left, down, right; then the long-range (double-step) pawns
PAWN_CHARS == <<"^", "<", "v", ">", "^^", "<<", "vv", ">>">>

Piece(char, team) == [char |-> char, team |-> team]

pawn_char(dir, pawn_type) == PAWN_CHARS[(pawn_type * 4 + IndexOf(DIRS, dir)) + 1]

piece_type(piece) ==
    IF piece.char \in Range(PAWN_CHARS) THEN "P" ELSE piece.char

piece_dir(piece) == DIRS[(IndexOf(PAWN_CHARS, piece.char) % 4) + 1]

pawn_type(piece) == IndexOf(PAWN_CHARS, piece.char) \div 4

\* Piece.pawn_dir: the pawn's facing
pawn_dir(piece) == piece_dir(piece)

\* the pawn directions of the four cardinal move directions
MOVE_DIRS_TO_PAWN_DIRS ==
    [d \in {MOVE_N, MOVE_E, MOVE_S, MOVE_W} |->
        CASE d = MOVE_N -> "u"
          [] d = MOVE_E -> "r"
          [] d = MOVE_S -> "d"
          [] d = MOVE_W -> "l"]

\* Piece.move_dir: the move direction a pawn faces
move_dir(piece) ==
    CHOOSE d \in DOMAIN MOVE_DIRS_TO_PAWN_DIRS :
        MOVE_DIRS_TO_PAWN_DIRS[d] = pawn_dir(piece)

(***************************************************************************)
(* board.py: Square                                                        *)
(***************************************************************************)
CANNOT_TAKE == 0

CAN_TAKE == 1

MUST_TAKE == 2

CHAR_NORMAL == "."

CHAR_ENTER == "E"

CHAR_EXIT == "X"

CHAR_BACKSLASH == "\\"

CHAR_SLASH == "/"

CHAR_HYPHEN == "-"

CHAR_PIPE == "|"

BOUNCE_CHARS == {CHAR_BACKSLASH, CHAR_SLASH, CHAR_HYPHEN, CHAR_PIPE}

CHARS == {CHAR_NORMAL, CHAR_ENTER, CHAR_EXIT} \cup BOUNCE_CHARS

Square(char) == [char |-> char]

\* Square._BOUNCES: per bouncer, the set of <<incoming, outgoing>> pairs
BOUNCES ==
    [c \in BOUNCE_CHARS |->
        CASE c = CHAR_BACKSLASH ->
                {<<MOVE_N, MOVE_W>>, <<MOVE_E, MOVE_S>>, <<MOVE_NE, MOVE_SW>>,
                 <<MOVE_W, MOVE_N>>, <<MOVE_S, MOVE_E>>, <<MOVE_SW, MOVE_NE>>}
          [] c = CHAR_SLASH ->
                {<<MOVE_N, MOVE_E>>, <<MOVE_W, MOVE_S>>, <<MOVE_NW, MOVE_SE>>,
                 <<MOVE_E, MOVE_N>>, <<MOVE_S, MOVE_W>>, <<MOVE_SE, MOVE_NW>>}
          [] c = CHAR_HYPHEN ->
                {<<MOVE_N, MOVE_S>>, <<MOVE_NE, MOVE_SE>>, <<MOVE_NW, MOVE_SW>>,
                 <<MOVE_S, MOVE_N>>, <<MOVE_SE, MOVE_NE>>, <<MOVE_SW, MOVE_NW>>}
          [] c = CHAR_PIPE ->
                {<<MOVE_E, MOVE_W>>, <<MOVE_NE, MOVE_NW>>, <<MOVE_SE, MOVE_SW>>,
                 <<MOVE_W, MOVE_E>>, <<MOVE_NW, MOVE_NE>>, <<MOVE_SW, MOVE_SE>>}]

is_solid(square) == square.char # CHAR_NORMAL

\* get_bounce_dir, were the table to turn a walker by an eighth of a turn
get_bounce_dir_eighth_turn(square, dir) ==
    IF square.char \notin DOMAIN BOUNCES
    THEN <<>>
    ELSE LET hits == {p \in BOUNCES[square.char] : p[1] = dir}
         IN  IF hits = {} THEN <<>> ELSE <<((CHOOSE p \in hits : TRUE)[2] + 1) % 8>>

\* get_bounce_dir, were a bouncer to send every walker back the way it came
get_bounce_dir_back(square, dir) ==
    IF square.char \notin DOMAIN BOUNCES
    THEN <<>>
    ELSE <<(dir + 4) % 8>>

\* Optional[MoveDir]: <<>> or <<the reflected direction>>
get_bounce_dir(square, dir) ==
    IF square.char \notin DOMAIN BOUNCES
    THEN <<>>
    ELSE LET hits == {p \in BOUNCES[square.char] : p[1] = dir}
         IN  IF hits = {} THEN <<>> ELSE <<(CHOOSE p \in hits : TRUE)[2]>>

(***************************************************************************)
(* board.py: Board.  A Board is [w, h, squares, pieces].  An operation     *)
(* that can raise returns [board |-> the board it leaves, err |-> "ok" or  *)
(* the exception raised].                                                  *)
(***************************************************************************)
Board(w, h, squares, pieces) ==
    [w |-> w, h |-> h, squares |-> squares, pieces |-> pieces]

\* Board(w=w, h=h): all squares Normal, no pieces
NewBoard(w, h) ==
    Board(w, h, Repeat(Square(CHAR_NORMAL), w * h), Repeat(None, w * h))

\* coords_to_index, were a negative coordinate left to index the list from
\* its end as a Python index does
coords_to_index_from_end(b, x, y) ==
    IF x >= b.w \/ y >= b.h THEN <<>> ELSE <<(y * b.w + x) % (b.w * b.h)>>

coords_to_index(b, x, y) ==
    IF x < 0 \/ x >= b.w \/ y < 0 \/ y >= b.h THEN <<>> ELSE <<y * b.w + x>>

get_piece(b, x, y) ==
    LET i == coords_to_index(b, x, y)
    IN  IF i # <<>> THEN b.pieces[i[1] + 1] ELSE None

set_piece(b, x, y, piece) ==
    LET i == coords_to_index(b, x, y)
    IN  IF i = <<>>
        THEN [board |-> b, err |-> "IndexError"]
        ELSE [board |-> [b EXCEPT !.pieces[i[1] + 1] = piece], err |-> "ok"]

get_square(b, x, y) ==
    LET i == coords_to_index(b, x, y)
    IN  IF i # <<>> THEN b.squares[i[1] + 1] ELSE None

set_square(b, x, y, square) ==
    LET i == coords_to_index(b, x, y)
    IN  IF i = <<>>
        THEN [board |-> b, err |-> "IndexError"]
        ELSE [board |-> [b EXCEPT !.squares[i[1] + 1] = square], err |-> "ok"]

is_solid_at(b, x, y) ==
    LET square == get_square(b, x, y)
    IN  square = None \/ is_solid(square)

LocatedPiece(x, y, piece) == [x |-> x, y |-> y, piece |-> piece]

PieceMove(piece, m) == [piece |-> piece, move |-> m]

IsLocated(lp) == lp # None

\* list_pieces(): the LocatedPieces of the board in storage (row-major) order
list_pieces(b) ==
    LET at == [i \in 1..Len(b.pieces) |->
                  IF b.pieces[i] = None
                  THEN None
                  ELSE LocatedPiece((i - 1) % b.w, (i - 1) \div b.w, b.pieces[i])]
    IN  SelectSeq(at, IsLocated)

\* Board.move, were the moved pawn to keep its range
move_keeping_range(b, x0, y0, x1, y1, dir) ==
    LET piece == get_piece(b, x0, y0)
    IN  IF piece = None
        THEN [board |-> b, err |-> "AttributeError"]
        ELSE IF piece_type(piece) = "P" /\ dir # <<>>
                  /\ dir[1] \notin DOMAIN MOVE_DIRS_TO_PAWN_DIRS
        THEN [board |-> b, err |-> "KeyError"]
        ELSE LET moved ==
                     IF piece_type(piece) = "P"
                     THEN LET pd == IF dir # <<>>
                                    THEN MOVE_DIRS_TO_PAWN_DIRS[dir[1]]
                                    ELSE pawn_dir(piece)
                          IN  [piece EXCEPT !.char = pawn_char(pd, pawn_type(piece))]
                     ELSE piece
                 r0 == set_piece(b, x0, y0, None)
             IN  IF r0.err # "ok" THEN r0
                 ELSE set_piece(r0.board, x1, y1, moved)

\* Board.move, were the source cell left as it is
move_leaving_source(b, x0, y0, x1, y1, dir) ==
    LET piece == get_piece(b, x0, y0)
    IN  IF piece = None
        THEN [board |-> b, err |-> "AttributeError"]
        ELSE IF piece_type(piece) = "P" /\ dir # <<>>
                  /\ dir[1] \notin DOMAIN MOVE_DIRS_TO_PAWN_DIRS
        THEN [board |-> b, err |-> "KeyError"]
        ELSE LET moved ==
                     IF piece_type(piece) = "P"
                     THEN LET pd == IF dir # <<>>
                                    THEN MOVE_DIRS_TO_PAWN_DIRS[dir[1]]
                                    ELSE pawn_dir(piece)
                          IN  [piece EXCEPT !.char = pawn_char(pd, 0)]
                     ELSE piece
             IN  set_piece(b, x1, y1, moved)

\* Board.move; dir is an Optional[MoveDir].  The source cell is cleared
\* before the destination is written, so a destination out of range raises
\* with the source cell already empty.
move(b, x0, y0, x1, y1, dir) ==
    LET piece == get_piece(b, x0, y0)
    IN  IF piece = None
        THEN [board |-> b, err |-> "AttributeError"]
        ELSE IF piece_type(piece) = "P" /\ dir # <<>>
                  /\ dir[1] \notin DOMAIN MOVE_DIRS_TO_PAWN_DIRS
        THEN [board |-> b, err |-> "KeyError"]
        ELSE LET moved ==
                     IF piece_type(piece) = "P"
                     THEN LET pd == IF dir # <<>>
                                    THEN MOVE_DIRS_TO_PAWN_DIRS[dir[1]]
                                    ELSE pawn_dir(piece)
                          IN  [piece EXCEPT !.char = pawn_char(pd, 0)]
                     ELSE piece
                 r0 == set_piece(b, x0, y0, None)
             IN  IF r0.err # "ok" THEN r0
                 ELSE set_piece(r0.board, x1, y1, moved)

\* Board.apply
apply(b, piece_move) ==
    move(b, piece_move.piece.x, piece_move.piece.y,
         piece_move.move.x, piece_move.move.y, <<piece_move.move.dir>>)

\* Board.scroll's lines, were the rows moved without being rotated
scroll_lines_unrotated(cells, w, h, addx, addy) ==
    LET src(y1) == CHOOSE y \in 0..(h - 1) : (y + addy) % h = y1
    IN  [r \in 1..h |-> PySlice(cells, src(r - 1) * w, src(r - 1) * w + w)]

\* one list of Board.scroll rebuilt: row y goes to row (y + addy) % h,
\* rotated right by addx
scroll_lines(cells, w, h, addx, addy) ==
    LET src(y1) == CHOOSE y \in 0..(h - 1) : (y + addy) % h = y1
        line(y) == LET i0 == y * w
                       i1 == i0 + w - addx
                       i2 == i0 + w
                   IN  PySlice(cells, i1, i2) \o PySlice(cells, i0, i1)
    IN  [r \in 1..h |-> line(src(r - 1))]

scroll(b, addx0, addy0) ==
    IF b.w = 0 \/ b.h = 0
    THEN [board |-> b, err |-> "ZeroDivisionError"]
    ELSE LET addx == addx0 % b.w
             addy == addy0 % b.h
         IN  [board |-> [b EXCEPT
                  !.pieces = Flatten(scroll_lines(b.pieces, b.w, b.h, addx, addy)),
                  !.squares = Flatten(scroll_lines(b.squares, b.w, b.h, addx, addy))],
              err |-> "ok"]

\* Board.resize's lines, were the rows read at the new width
resize_lines_new_w(cells, old_w, new_w, new_h, add_w, add_h) ==
    LET kept == [r \in 1..Max(new_h, 0) |->
                    PySlice(cells, (r - 1) * new_w,
                            (r - 1) * new_w + Min(new_w, old_w))]
        added == [i \in 1..Max(add_h, 0) |-> Repeat(None, new_w)]
        lines == kept \o added
    IN  [r \in 1..Len(lines) |-> lines[r] \o Repeat(None, add_w)]

\* one list of Board.resize rebuilt: a slice per row y in range(new_h), then
\* add_h rows of new_w holes, and every line extended by add_w holes
resize_lines(cells, old_w, new_w, new_h, add_w, add_h) ==
    LET kept == [r \in 1..Max(new_h, 0) |->
                    LET i0 == (r - 1) * old_w
                        i1 == i0 + Min(new_w, old_w)
                    IN  PySlice(cells, i0, i1)]
        added == [i \in 1..Max(add_h, 0) |-> Repeat(None, new_w)]
        lines == kept \o added
        add_to_line == Repeat(None, add_w)
    IN  [r \in 1..Len(lines) |-> lines[r] \o add_to_line]

resize(b, add_w, add_h) ==
    LET old_w == b.w
        old_h == b.h
        new_w == old_w + add_w
        new_h == old_h + add_h
    IN  Board(new_w, new_h,
              Flatten(resize_lines(b.squares, old_w, new_w, new_h, add_w, add_h)),
              Flatten(resize_lines(b.pieces, old_w, new_w, new_h, add_w, add_h)))

\* the digit character of a team number
TeamDigit(team) == <<"0", "1", "2", "3", "4", "5", "6", "7", "8", "9">>[team + 1]

\* Board.get_state_id: the string, as the sequence of its characters
get_state_id(b) ==
    LET n == Min(Len(b.squares), Len(b.pieces))
        cell(i) ==
            IF b.squares[i] = None
            THEN <<"#">>
            ELSE <<b.squares[i].char>> \o
                 (IF b.pieces[i] = None
                  THEN <<>>
                  ELSE <<TeamDigit(b.pieces[i].team), b.pieces[i].char>>)
    IN  Flatten([i \in 1..n |-> cell(i)])

\* the null of a document (a list element is null or a non-empty list)
Null == <<>>

\* _dump_tuple: a Square becomes [char], a Piece [char, team], None null
dump_square(t) == IF t = None THEN Null ELSE <<t.char>>

\* _dump_tuple, were a piece written without its team
dump_piece_no_team(t) == IF t = None THEN Null ELSE <<t.char>>

dump_piece(t) == IF t = None THEN Null ELSE <<t.char, t.team>>

\* Board.dump: the document
dump(b) ==
    [w |-> b.w, h |-> b.h,
     squares |-> [i \in 1..Len(b.squares) |-> dump_square(b.squares[i])],
     pieces |-> [i \in 1..Len(b.pieces) |-> dump_piece(b.pieces[i])]]

\* _load_tuple(d, Square) and _load_tuple(d, Piece); Piece's team defaults
\* to 0 when the element has the char alone
load_square(d) == IF d = Null THEN None ELSE Square(d[1])

load_piece(d) ==
    IF d = Null
    THEN None
    ELSE Piece(d[1], IF Len(d) >= 2 THEN d[2] ELSE 0)

\* Board.load
load(data) ==
    Board(data.w, data.h,
          [i \in 1..Len(data.squares) |-> load_square(data.squares[i])],
          [i \in 1..Len(data.pieces) |-> load_piece(data.pieces[i])])

\* Board.copy_for_trying_out_moves: the copy, and the fields whose list is
\* the source's own list rather than a copy of it
\* the copy, were the pieces list handed over without being copied
copy_sharing_pieces(b) ==
    [board |-> Board(b.w, b.h, b.squares, b.pieces),
     shared |-> {"squares", "pieces"}]

copy_for_trying_out_moves(b) ==
    [board |-> Board(b.w, b.h, b.squares, b.pieces), shared |-> {"squares"}]

(***************************************************************************)
(* board.py: Board.get_moves.  The closure variables of one call are       *)
(* o = [x0, y0, team] and st = [checked, moves, adds]: the sets "checked"  *)
(* and "moves", and adds, the number of times checked.add(move) has run.   *)
(***************************************************************************)
CheckMoveResult(would_take, bounce_dir) ==
    [would_take |-> would_take, bounce_dir |-> bounce_dir]

\* check_move, were a hole or a solid square accepted as a destination
check_move_onto_solid(b, o, st, x, y, dir, can_take) ==
    LET i == coords_to_index(b, x, y)
        m == Move(x, y, dir)
    IN  IF i = <<>>
        THEN [result |-> None, st |-> st]
        ELSE IF m \in st.checked
        THEN [result |-> None, st |-> st]
        ELSE
        LET st1 == [st EXCEPT !.checked = @ \cup {m}, !.adds = @ + 1]
            square == b.squares[i[1] + 1]
            bounce_dir == IF square = None THEN <<>> ELSE get_bounce_dir(square, dir)
            piece == b.pieces[i[1] + 1]
            would_take == piece # None /\ ~(x = o.x0 /\ y = o.y0)
        IN  IF bounce_dir # <<>>
            THEN [result |-> CheckMoveResult(FALSE, bounce_dir), st |-> st1]
            ELSE IF would_take /\ piece.team = o.team
            THEN [result |-> None, st |-> st1]
            ELSE IF can_take = CANNOT_TAKE /\ would_take
            THEN [result |-> None, st |-> st1]
            ELSE IF can_take = MUST_TAKE /\ ~would_take
            THEN [result |-> None, st |-> st1]
            ELSE [result |-> CheckMoveResult(would_take, <<>>),
                  st |-> [st1 EXCEPT !.moves = @ \cup {m}]]

\* check_move, were a piece of the mover's own team taken like any other
check_move_any_team(b, o, st, x, y, dir, can_take) ==
    LET i == coords_to_index(b, x, y)
        m == Move(x, y, dir)
    IN  IF i = <<>>
        THEN [result |-> None, st |-> st]
        ELSE IF m \in st.checked
        THEN [result |-> None, st |-> st]
        ELSE
        LET st1 == [st EXCEPT !.checked = @ \cup {m}, !.adds = @ + 1]
            square == b.squares[i[1] + 1]
            bounce_dir == IF square = None THEN <<>> ELSE get_bounce_dir(square, dir)
            piece == b.pieces[i[1] + 1]
            would_take == piece # None /\ ~(x = o.x0 /\ y = o.y0)
        IN  IF bounce_dir # <<>>
            THEN [result |-> CheckMoveResult(FALSE, bounce_dir), st |-> st1]
            ELSE IF square = None \/ is_solid(square)
            THEN [result |-> None, st |-> st1]
            ELSE IF can_take = CANNOT_TAKE /\ would_take
            THEN [result |-> None, st |-> st1]
            ELSE IF can_take = MUST_TAKE /\ ~would_take
            THEN [result |-> None, st |-> st1]
            ELSE [result |-> CheckMoveResult(would_take, <<>>),
                  st |-> [st1 EXCEPT !.moves = @ \cup {m}]]

\* check_move, were a Move already in "checked" examined again
check_move_unvisited(b, o, st, x, y, dir, can_take) ==
    LET i == coords_to_index(b, x, y)
        m == Move(x, y, dir)
    IN  IF i = <<>>
        THEN [result |-> None, st |-> st]
        ELSE
        LET st1 == [st EXCEPT !.checked = @ \cup {m}, !.adds = @ + 1]
            square == b.squares[i[1] + 1]
            bounce_dir == IF square = None THEN <<>> ELSE get_bounce_dir(square, dir)
            piece == b.pieces[i[1] + 1]
            would_take == piece # None /\ ~(x = o.x0 /\ y = o.y0)
        IN  IF bounce_dir # <<>>
            THEN [result |-> CheckMoveResult(FALSE, bounce_dir), st |-> st1]
            ELSE IF square = None \/ is_solid(square)
            THEN [result |-> None, st |-> st1]
            ELSE IF would_take /\ piece.team = o.team
            THEN [result |-> None, st |-> st1]
            ELSE IF can_take = CANNOT_TAKE /\ would_take
            THEN [result |-> None, st |-> st1]
            ELSE IF can_take = MUST_TAKE /\ ~would_take
            THEN [result |-> None, st |-> st1]
            ELSE [result |-> CheckMoveResult(would_take, <<>>),
                  st |-> [st1 EXCEPT !.moves = @ \cup {m}]]

\* check_move: [result |-> None or a CheckMoveResult, st |-> the sets after]
check_move(b, o, st, x, y, dir, can_take) ==
    LET i == coords_to_index(b, x, y)
        m == Move(x, y, dir)
    IN  IF i = <<>>
        THEN [result |-> None, st |-> st]
        ELSE IF m \in st.checked
        THEN [result |-> None, st |-> st]
        ELSE
        LET st1 == [st EXCEPT !.checked = @ \cup {m}, !.adds = @ + 1]
            square == b.squares[i[1] + 1]
            bounce_dir == IF square = None THEN <<>> ELSE get_bounce_dir(square, dir)
            piece == b.pieces[i[1] + 1]
            would_take == piece # None /\ ~(x = o.x0 /\ y = o.y0)
        IN  IF bounce_dir # <<>>
            THEN [result |-> CheckMoveResult(FALSE, bounce_dir), st |-> st1]
            ELSE IF square = None \/ is_solid(square)
            THEN [result |-> None, st |-> st1]
            ELSE IF would_take /\ piece.team = o.team
            THEN [result |-> None, st |-> st1]
            ELSE IF can_take = CANNOT_TAKE /\ would_take
            THEN [result |-> None, st |-> st1]
            ELSE IF can_take = MUST_TAKE /\ ~would_take
            THEN [result |-> None, st |-> st1]
            ELSE [result |-> CheckMoveResult(would_take, <<>>),
                  st |-> [st1 EXCEPT !.moves = @ \cup {m}]]

\* One iteration of check_line's loop, were the walk not broken off after a
\* take
check_line_iter_past_takes(b, o, st, cur, max_moves, can_take) ==
    LET r == check_move(b, o, st, cur.x, cur.y, cur.dir, can_take)
    IN  IF r.result = None
        THEN [st |-> r.st, cur |-> cur, continue |-> FALSE]
        ELSE
        LET bounced == r.result.bounce_dir # <<>>
            dir == IF bounced THEN r.result.bounce_dir[1] ELSE cur.dir
            n_moves == IF bounced THEN cur.n_moves ELSE cur.n_moves + 1
            add == MOVE_DIRS_TO_COORDS[dir + 1]
        IN  IF max_moves # <<>> /\ n_moves >= max_moves[1]
            THEN [st |-> r.st,
                  cur |-> [cur EXCEPT !.dir = dir, !.n_moves = n_moves],
                  continue |-> FALSE]
            ELSE [st |-> r.st,
                  cur |-> [x |-> cur.x + add[1], y |-> cur.y + add[2],
                           dir |-> dir, n_moves |-> n_moves],
                  continue |-> TRUE]

\* One iteration of check_line's loop, were a bounce counted as a move made
check_line_iter_counting_bounces(b, o, st, cur, max_moves, can_take) ==
    LET r == check_move(b, o, st, cur.x, cur.y, cur.dir, can_take)
    IN  IF r.result = None
        THEN [st |-> r.st, cur |-> cur, continue |-> FALSE]
        ELSE IF r.result.would_take
        THEN [st |-> r.st, cur |-> cur, continue |-> FALSE]
        ELSE
        LET bounced == r.result.bounce_dir # <<>>
            dir == IF bounced THEN r.result.bounce_dir[1] ELSE cur.dir
            n_moves == cur.n_moves + 1
            add == MOVE_DIRS_TO_COORDS[dir + 1]
        IN  IF max_moves # <<>> /\ n_moves >= max_moves[1]
            THEN [st |-> r.st,
                  cur |-> [cur EXCEPT !.dir = dir, !.n_moves = n_moves],
                  continue |-> FALSE]
            ELSE [st |-> r.st,
                  cur |-> [x |-> cur.x + add[1], y |-> cur.y + add[2],
                           dir |-> dir, n_moves |-> n_moves],
                  continue |-> TRUE]

\* One iteration of check_line's "while True" at walker position
\* cur = [x, y, dir, n_moves]: [st, cur, continue]
check_line_iter(b, o, st, cur, max_moves, can_take) ==
    LET r == check_move(b, o, st, cur.x, cur.y, cur.dir, can_take)
    IN  IF r.result = None
        THEN [st |-> r.st, cur |-> cur, continue |-> FALSE]
        ELSE IF r.result.would_take
        THEN [st |-> r.st, cur |-> cur, continue |-> FALSE]
        ELSE
        LET bounced == r.result.bounce_dir # <<>>
            dir == IF bounced THEN r.result.bounce_dir[1] ELSE cur.dir
            n_moves == IF bounced THEN cur.n_moves ELSE cur.n_moves + 1
            add == MOVE_DIRS_TO_COORDS[dir + 1]
        IN  IF max_moves # <<>> /\ n_moves >= max_moves[1]
            THEN [st |-> r.st,
                  cur |-> [cur EXCEPT !.dir = dir, !.n_moves = n_moves],
                  continue |-> FALSE]
            ELSE [st |-> r.st,
                  cur |-> [x |-> cur.x + add[1], y |-> cur.y + add[2],
                           dir |-> dir, n_moves |-> n_moves],
                  continue |-> TRUE]

\* the walker's position on entering check_line(dir, ...)
check_line_start(o, dir) ==
    LET add == MOVE_DIRS_TO_COORDS[dir + 1]
    IN  [x |-> o.x0 + add[1], y |-> o.y0 + add[2], dir |-> dir, n_moves |-> 0]

RECURSIVE check_line_loop(_, _, _, _, _, _)
check_line_loop(b, o, st, cur, max_moves, can_take) ==
    LET it == check_line_iter(b, o, st, cur, max_moves, can_take)
    IN  IF it.continue
        THEN check_line_loop(b, o, it.st, it.cur, max_moves, can_take)
        ELSE it.st

\* check_line: the sets after the whole walk
check_line(b, o, st, dir, max_moves, can_take) ==
    check_line_loop(b, o, st, check_line_start(o, dir), max_moves, can_take)

\* a call check_line(dir, max_moves, can_take), were can_take not handed on
\* and left at its default
LineCall_default_can_take(dir, max_moves, can_take) ==
    [op |-> "check_line", x |-> 0, y |-> 0, dir |-> dir,
     max_moves |-> max_moves, can_take |-> CAN_TAKE]

LineCall(dir, max_moves, can_take) ==
    [op |-> "check_line", x |-> 0, y |-> 0, dir |-> dir,
     max_moves |-> max_moves, can_take |-> can_take]

\* a call check_move(x, y, dir, can_take), were x and y handed over in the
\* wrong order
MoveCall_y_first(x, y, dir, can_take) ==
    [op |-> "check_move", x |-> y, y |-> x, dir |-> dir,
     max_moves |-> <<>>, can_take |-> can_take]

MoveCall(x, y, dir, can_take) ==
    [op |-> "check_move", x |-> x, y |-> y, dir |-> dir,
     max_moves |-> <<>>, can_take |-> can_take]

check_rook ==
    << LineCall(MOVE_N, <<>>, CAN_TAKE), LineCall(MOVE_S, <<>>, CAN_TAKE),
       LineCall(MOVE_E, <<>>, CAN_TAKE), LineCall(MOVE_W, <<>>, CAN_TAKE) >>

check_bishop ==
    << LineCall(MOVE_NW, <<>>, CAN_TAKE), LineCall(MOVE_NE, <<>>, CAN_TAKE),
       LineCall(MOVE_SW, <<>>, CAN_TAKE), LineCall(MOVE_SE, <<>>, CAN_TAKE) >>

\* the body of get_moves for the piece at (x, y): the calls it makes, in order
get_moves_calls(piece, x, y) ==
    LET pt == piece_type(piece)
    IN  CASE pt = "K" ->
              << LineCall(MOVE_N, <<1>>, CAN_TAKE), LineCall(MOVE_S, <<1>>, CAN_TAKE),
                 LineCall(MOVE_E, <<1>>, CAN_TAKE), LineCall(MOVE_W, <<1>>, CAN_TAKE),
                 LineCall(MOVE_NW, <<1>>, CAN_TAKE), LineCall(MOVE_NE, <<1>>, CAN_TAKE),
                 LineCall(MOVE_SW, <<1>>, CAN_TAKE), LineCall(MOVE_SE, <<1>>, CAN_TAKE) >>
          [] pt = "Q" -> check_rook \o check_bishop
          [] pt = "R" -> check_rook
          [] pt = "B" -> check_bishop
          [] pt = "N" ->
              << MoveCall(x - 1, y - 2, MOVE_N, CAN_TAKE),
                 MoveCall(x - 2, y - 1, MOVE_W, CAN_TAKE),
                 MoveCall(x - 2, y + 1, MOVE_W, CAN_TAKE),
                 MoveCall(x - 1, y + 2, MOVE_S, CAN_TAKE),
                 MoveCall(x + 1, y + 2, MOVE_S, CAN_TAKE),
                 MoveCall(x + 2, y + 1, MOVE_E, CAN_TAKE),
                 MoveCall(x + 2, y - 1, MOVE_E, CAN_TAKE),
                 MoveCall(x + 1, y - 2, MOVE_N, CAN_TAKE) >>
          [] pt = "P" ->
              LET dir == move_dir(piece)
                  a1 == MOVE_DIRS_TO_COORDS[((dir - 1) % 8) + 1]
                  a2 == MOVE_DIRS_TO_COORDS[((dir + 1) % 8) + 1]
              IN  << MoveCall(x + a1[1], y + a1[2], dir, MUST_TAKE),
                     MoveCall(x + a2[1], y + a2[2], dir, MUST_TAKE),
                     LineCall(dir, <<1 + pawn_type(piece)>>, CANNOT_TAKE) >>

RECURSIVE run_calls(_, _, _, _)
\* the calls made one after the other on the shared sets
run_calls(b, o, st, calls) ==
    IF calls = <<>>
    THEN st
    ELSE LET c == Head(calls)
             st1 == IF c.op = "check_line"
                    THEN check_line(b, o, st, c.dir, c.max_moves, c.can_take)
                    ELSE check_move(b, o, st, c.x, c.y, c.dir, c.can_take).st
         IN  run_calls(b, o, st1, Tail(calls))

\* get_moves: "if not piece: raise Exception(...)"
get_moves_raises(b, x, y) == get_piece(b, x, y) = None

Origin(b, x, y) == [x0 |-> x, y0 |-> y, team |-> get_piece(b, x, y).team]

EmptySets == [checked |-> {}, moves |-> {}, adds |-> 0]

\* get_moves for an occupied (x, y): the final sets of the call
get_moves_sets(b, x, y) ==
    run_calls(b, Origin(b, x, y), EmptySets, get_moves_calls(get_piece(b, x, y), x, y))

\* get_moves for an occupied (x, y): the set of Moves returned
get_moves(b, x, y) == get_moves_sets(b, x, y).moves

(***************************************************************************)
(* ai.py: Score = float.  A float is an IEEE-754 binary64 number.  Every   *)
(* score computed here is a multiple of 2^-58 (0.02 is                     *)
(* 0x3F947AE147AE147B = 5764607523034235 * 2^-58 and 0.1 is                *)
(* 0x3FB999999999999A = 7205759403792794 * 2^-56) and is smaller than      *)
(* 2^14, so a float is held exactly: a sign, and a magnitude counting      *)
(* units of 2^-58 in four limbs of twenty bits, the least significant      *)
(* first.  An arithmetic operation is the exact operation followed by the  *)
(* rounding to 53 significant bits, ties to even.                          *)
(***************************************************************************)
LimbBase == 1048576

RECURSIVE Pow2(_)
Pow2(k) == IF k = 0 THEN 1 ELSE 2 * Pow2(k - 1)

RECURSIVE BitLen(_)
\* the number of bits of a natural number
BitLen(n) == IF n = 0 THEN 0 ELSE 1 + BitLen(n \div 2)

RECURSIVE MagNorm(_, _)
\* carries and borrows brought forward, every limb back in 0..LimbBase-1
MagNorm(a, carry) ==
    IF a = <<>>
    THEN <<>>
    ELSE LET v == Head(a) + carry
         IN  <<v % LimbBase>> \o MagNorm(Tail(a), v \div LimbBase)

MagZero == <<0, 0, 0, 0>>

MagAdd(a, b) == MagNorm([i \in 1..4 |-> a[i] + b[i]], 0)

\* a - b for a >= b
MagSub(a, b) == MagNorm([i \in 1..4 |-> a[i] - b[i]], 0)

\* a * n for a natural number n below 2^11
MagMul(a, n) == MagNorm([i \in 1..4 |-> a[i] * n], 0)

MagLess(a, b) ==
    \E i \in 1..4 : a[i] < b[i] /\ \A j \in (i + 1)..4 : a[j] = b[j]

MagBits(a) ==
    IF a = MagZero
    THEN 0
    ELSE LET top == CHOOSE i \in 1..4 : a[i] # 0 /\ \A j \in (i + 1)..4 : a[j] = 0
         IN  20 * (top - 1) + BitLen(a[top])

\* round to nearest, ties to even, keeping 53 significant bits (at most
\* twenty bits are dropped for a magnitude below 2^73 units)
Round53(a) ==
    LET d == MagBits(a) - 53
    IN  IF d <= 0
        THEN a
        ELSE LET unit == Pow2(d)
                 r    == a[1] % unit
                 odd  == IF unit = LimbBase THEN a[2] % 2 = 1
                                            ELSE (a[1] \div unit) % 2 = 1
                 down == MagSub(a, <<r, 0, 0, 0>>)
                 up   == 2 * r > unit \/ (2 * r = unit /\ odd)
             IN  IF up
                 THEN MagAdd(down, <<unit % LimbBase, unit \div LimbBase, 0, 0>>)
                 ELSE down

\* a float of the given sign and magnitude (-0.0 and 0.0 compare equal and
\* are held as one value)
Float(neg, mag) == [neg |-> neg /\ mag # MagZero, mag |-> mag]

\* float(i) for an integer i, exact below 2^53
float_of_int(i) ==
    LET n == IF i < 0 THEN -i ELSE i
    IN  Float(i < 0, <<0, 0, (n % 4) * 262144, n \div 4>>)

\* x + y for floats
float_add(x, y) ==
    IF x.neg = y.neg
    THEN Float(x.neg, Round53(MagAdd(x.mag, y.mag)))
    ELSE IF MagLess(x.mag, y.mag)
         THEN Float(y.neg, Round53(MagSub(y.mag, x.mag)))
         ELSE Float(x.neg, Round53(MagSub(x.mag, y.mag)))

\* n * x for an integer n and a float x
float_mul(n, x) ==
    Float(x.neg # (n < 0), Round53(MagMul(x.mag, IF n < 0 THEN -n ELSE n)))

\* x < y for floats
float_lt(x, y) ==
    IF x.neg # y.neg
    THEN x.neg
    ELSE IF x.neg THEN MagLess(y.mag, x.mag) ELSE MagLess(x.mag, y.mag)

\* MOVE_WEIGHT = .02
MOVE_WEIGHT == Float(FALSE, <<922747, 922746, 5242, 0>>)

\* STUCK_PIECE_WEIGHT = -.1
STUCK_PIECE_WEIGHT == Float(TRUE, <<419432, 419430, 26214, 0>>)

(***************************************************************************)
(* board.py: BoardState                                                    *)
(***************************************************************************)
OPPONENT_TEAMS == 4

N_TEAMS == OPPONENT_TEAMS + 1

PIECE_TYPES == TYPES

PIECE_SCORES == [t \in Range(PIECE_TYPES) |->
    CASE t = "K" -> 1000
      [] t = "Q" -> 9
      [] t = "R" -> 5
      [] t = "B" -> 3
      [] t = "N" -> 3
      [] t = "P" -> 1]

RECURSIVE set_order(_)
\* "for move in moves" over a set: every element once, in an order that the
\* set's value fixes and that nothing else is known of
set_order(S) ==
    IF S = {}
    THEN <<>>
    ELSE LET e == CHOOSE e \in S : TRUE
         IN  <<e>> \o set_order(S \ {e})

\* "for team in state.teams" over a set of small integers: ascending
team_order(teams) ==
    LET present(team) == team \in teams
    IN  SelectSeq([i \in 1..N_TEAMS |-> i - 1], present)

RECURSIVE pieces_and_moves(_, _)
\* BoardState.__init__: the (piece, moves) pair of every piece of
\* board.list_pieces(), in that order
pieces_and_moves(b, pieces) ==
    IF pieces = <<>>
    THEN <<>>
    ELSE << <<Head(pieces), get_moves(b, Head(pieces).x, Head(pieces).y)>> >>
             \o pieces_and_moves(b, Tail(pieces))

\* BoardState.get_material over the (piece, moves) pairs of one team
get_material(pairs) ==
    [t \in Range(PIECE_TYPES) |->
        Cardinality({i \in 1..Len(pairs) : piece_type(pairs[i][1].piece) = t})]

\* BoardState(board), were the entries of the teams without a piece not
\* deleted from pieces_and_moves_by_team
BoardState_keeping_absent_teams(b, all) ==
    LET teams == {all[i][1].piece.team : i \in 1..Len(all)}
        of(team) == LET mine(pair) == pair[1].piece.team = team
                    IN  SelectSeq(all, mine)
    IN  IF \E team \in teams : team \notin 0..(N_TEAMS - 1)
        THEN [err |-> "KeyError"]
        ELSE [err |-> "ok",
              state_id |-> get_state_id(b),
              teams |-> teams,
              pieces_and_moves_by_team |-> [team \in 0..(N_TEAMS - 1) |-> of(team)],
              material_by_team |->
                  [team \in 0..(N_TEAMS - 1) |-> get_material(of(team))]]

\* BoardState(board), all being the (piece, moves) pairs of the board;
\* KeyError when a piece is of a team outside range(N_TEAMS)
BoardState(b, all) ==
    LET teams == {all[i][1].piece.team : i \in 1..Len(all)}
        of(team) == LET mine(pair) == pair[1].piece.team = team
                    IN  SelectSeq(all, mine)
    IN  IF \E team \in teams : team \notin 0..(N_TEAMS - 1)
        THEN [err |-> "KeyError"]
        ELSE [err |-> "ok",
              state_id |-> get_state_id(b),
              teams |-> teams,
              pieces_and_moves_by_team |-> [team \in teams |-> of(team)],
              material_by_team |-> [team \in teams |-> get_material(of(team))]]

\* Board.get_state()
get_state(b) == BoardState(b, pieces_and_moves(b, list_pieces(b)))

(***************************************************************************)
(* ai.py: FutureSeekerAI.  An AI is its team; future_sight, which          *)
(* __init__ sets to 0 and which is a public attribute, is a parameter of   *)
(* the search.                                                             *)
(***************************************************************************)
material_weight_by_team(self_team, team) == IF team = self_team THEN 1 ELSE -1

move_weight_by_team(self_team, team) ==
    float_mul(IF team = self_team THEN 1 ELSE -1, MOVE_WEIGHT)

stuck_piece_weight_by_team(self_team, team) ==
    float_mul(IF team = self_team THEN 1 ELSE -1, STUCK_PIECE_WEIGHT)

RECURSIVE SumInts(_)
SumInts(s) == IF s = <<>> THEN 0 ELSE Head(s) + SumInts(Tail(s))

\* get_state_score: the material_score a team adds (integers)
team_material_score(self_team, state, team) ==
    SumInts([i \in 1..Len(PIECE_TYPES) |->
        PIECE_SCORES[PIECE_TYPES[i]] * state.material_by_team[team][PIECE_TYPES[i]]
            * material_weight_by_team(self_team, team)])

RECURSIVE mobility_scores(_, _, _, _)
\* get_state_score: the loop over the (piece, moves) pairs of one team, from
\* acc = [moves_score, stuck_pieces_score]
mobility_scores(self_team, team, pairs, acc) ==
    IF pairs = <<>>
    THEN acc
    ELSE LET moves == Head(pairs)[2]
         IN  mobility_scores(self_team, team, Tail(pairs),
                 IF moves # {}
                 THEN [acc EXCEPT !.moves_score =
                          float_add(@, float_mul(Cardinality(moves),
                                                 move_weight_by_team(self_team, team)))]
                 ELSE [acc EXCEPT !.stuck_pieces_score =
                          float_add(@, stuck_piece_weight_by_team(self_team, team))])

\* get_state_score: the three sums after one more team
add_team(acc, material, mob) ==
    [material_score |-> acc.material_score + material,
     moves_score |-> mob.moves_score,
     stuck_pieces_score |-> mob.stuck_pieces_score]

RECURSIVE score_teams(_, _, _, _)
\* get_state_score: the loop over state.teams
score_teams(self_team, state, teams, acc) ==
    IF teams = <<>>
    THEN acc
    ELSE score_teams(self_team, state, Tail(teams),
             add_team(acc,
                 team_material_score(self_team, state, Head(teams)),
                 mobility_scores(self_team, Head(teams),
                     state.pieces_and_moves_by_team[Head(teams)],
                     [moves_score |-> acc.moves_score,
                      stuck_pieces_score |-> acc.stuck_pieces_score])))

\* get_state_score: material_score + (moves_score + stuck_pieces_score)
total_score(sums) ==
    float_add(float_of_int(sums.material_score),
              float_add(sums.moves_score, sums.stuck_pieces_score))

\* FutureSeekerAI(self_team).get_state_score(state)
get_state_score(self_team, state) ==
    total_score(score_teams(self_team, state, team_order(state.teams),
                    [material_score |-> 0,
                     moves_score |-> float_of_int(0),
                     stuck_pieces_score |-> float_of_int(0)]))

RECURSIVE insert_by_score(_, _)
\* e put behind every entry whose score is not below its own
insert_by_score(sorted, e) ==
    IF sorted = <<>>
    THEN <<e>>
    ELSE IF float_lt(Head(sorted)[2], e[2])
         THEN <<e>> \o sorted
         ELSE <<Head(sorted)>> \o insert_by_score(Tail(sorted), e)

RECURSIVE sort_into(_, _)
sort_into(sorted, rest) ==
    IF rest = <<>>
    THEN sorted
    ELSE sort_into(insert_by_score(sorted, Head(rest)), Tail(rest))

\* moves_and_scores.sort(key=lambda t: t[1]), were reverse=True left out:
\* lowest score first
sort_lowest_first(moves_and_scores) ==
    LET sorted == sort_into(<<>>, moves_and_scores)
    IN  [i \in 1..Len(sorted) |-> sorted[Len(sorted) + 1 - i]]

\* moves_and_scores.sort(key=lambda t: t[1], reverse=True): highest score
\* first, entries of equal score in the order they had (the sort is stable)
sort_by_score(moves_and_scores) == sort_into(<<>>, moves_and_scores)

\* the PieceMoves of one piece, moves being its moves in the order met
with_piece(piece, moves) == [j \in 1..Len(moves) |-> PieceMove(piece, moves[j])]

\* the PieceMoves of the loops over pieces_and_moves, were the outer loop
\* left after the first piece
piece_moves_of_first_piece(pairs) ==
    IF pairs = <<>>
    THEN <<>>
    ELSE with_piece(Head(pairs)[1], set_order(Head(pairs)[2]))

RECURSIVE piece_moves_of(_)
\* the PieceMoves of "for piece, moves in pieces_and_moves: for move in moves"
piece_moves_of(pairs) ==
    IF pairs = <<>>
    THEN <<>>
    ELSE with_piece(Head(pairs)[1], set_order(Head(pairs)[2]))
             \o piece_moves_of(Tail(pairs))

\* future_move, future_move_score = future_next_moves[0]
first_score(future_next_moves) ==
    IF future_next_moves.err # "ok"
    THEN [err |-> future_next_moves.err]
    ELSE IF future_next_moves.moves = <<>>
    THEN [err |-> "IndexError"]
    ELSE [err |-> "ok", score |-> future_next_moves.moves[1][2]]

\* self.get_state_score(new_state)
state_score(self_team, new_state) ==
    IF new_state.err # "ok"
    THEN [err |-> new_state.err]
    ELSE [err |-> "ok", score |-> get_state_score(self_team, new_state)]

RECURSIVE moves_in_state(_, _, _, _, _, _)
RECURSIVE board_scores(_, _, _, _, _)

\* get_board_score from "if future_sight > 0" on, new_state being
\* new_board.get_state(): the recursive call starts by working out the state
\* of new_board anew, which is new_state again
score_in_state(self_team, new_board, future_sight, team, new_state) ==
    IF future_sight > 0
    THEN first_score(moves_in_state(self_team, new_board, future_sight - 1,
                         (team + 1) % N_TEAMS, TRUE, new_state))
    ELSE state_score(self_team, new_state)

\* get_board_score once the move is made: applied is the new board, or the
\* exception apply raised
score_after(self_team, future_sight, team, applied) ==
    IF applied.err # "ok"
    THEN [err |-> applied.err]
    ELSE score_in_state(self_team, applied.board, future_sight, team,
                        get_state(applied.board))

\* get_board_score(piece_move), the closure of _find_next_moves_future over
\* self, board, future_sight and team: [err, score]
get_board_score(self_team, b, piece_move, future_sight, team) ==
    score_after(self_team, future_sight, team,
        IF piece_move # None
        THEN apply(copy_for_trying_out_moves(b).board, piece_move)
        ELSE [board |-> b, err |-> "ok"])

\* get_board_score of every entry of the list, in order
board_scores(self_team, b, future_sight, team, piece_moves) ==
    IF piece_moves = <<>>
    THEN <<>>
    ELSE <<get_board_score(self_team, b, Head(piece_moves), future_sight, team)>>
             \o board_scores(self_team, b, future_sight, team, Tail(piece_moves))

\* what _find_next_moves_future scores: the PieceMoves of the team, or, the
\* team having no (piece, moves) pair, the empty move None if it is allowed
moves_to_score(state, team, allow_the_empty_move) ==
    IF team \in state.teams
    THEN piece_moves_of(state.pieces_and_moves_by_team[team])
    ELSE IF allow_the_empty_move THEN <<None>> ELSE <<>>

\* the list returned once every move is scored: the first exception raised,
\* if any; [(None, score)] for the empty move; else the (PieceMove, score)
\* pairs sorted (a list without an entry, or of one entry, is sorted)
moves_and_scores(piece_moves, scored) ==
    LET failed == {i \in 1..Len(scored) : scored[i].err # "ok"}
    IN  IF failed # {}
        THEN [err |-> scored[CHOOSE i \in failed : \A j \in failed : i <= j].err]
        ELSE [err |-> "ok",
              moves |-> sort_by_score([i \in 1..Len(piece_moves) |->
                                          <<piece_moves[i], scored[i].score>>])]

\* _find_next_moves_future on the moves to score
scored_moves(self_team, b, future_sight, team, piece_moves) ==
    moves_and_scores(piece_moves,
        board_scores(self_team, b, future_sight, team, piece_moves))

\* _find_next_moves_future from "pieces_and_moves = ...get(team)" on, state
\* being board.get_state()
moves_in_state(self_team, b, future_sight, team, allow_the_empty_move, state) ==
    IF state.err # "ok"
    THEN [err |-> state.err]
    ELSE scored_moves(self_team, b, future_sight, team,
             moves_to_score(state, team, allow_the_empty_move))

\* FutureSeekerAI(self_team)._find_next_moves_future(board, future_sight,
\* team=team, allow_the_empty_move=...): [err, moves], moves the list of
\* (PieceMove or None, score) pairs returned
find_next_moves_future(self_team, b, future_sight, team, allow_the_empty_move) ==
    moves_in_state(self_team, b, future_sight, team, allow_the_empty_move,
                   get_state(b))

\* FutureSeekerAI(self_team).find_next_moves(board), the AI's future_sight
\* being future_sight
find_next_moves(self_team, future_sight, b) ==
    find_next_moves_future(self_team, b, future_sight, self_team, FALSE)

\* next_moves[0] if next_moves else None
first_or_none(next_moves) ==
    IF next_moves.err # "ok"
    THEN [err |-> next_moves.err]
    ELSE [err |-> "ok",
          move |-> IF next_moves.moves # <<>> THEN next_moves.moves[1] ELSE None]

\* AI.find_next_move(board): [err, move], move the first entry or None
find_next_move(self_team, future_sight, b) ==
    first_or_none(find_next_moves(self_team, future_sight, b))

(***************************************************************************)
(* The state.  board is the Board in use (Editor.board); trial is a Board  *)
(* made by copy_for_trying_out_moves, or None; shared names the fields of  *)
(* trial whose list object is the very list of board (a write in place to  *)
(* one is a write to the other); snap is board as it was when trial was    *)
(* made; ops counts the move and apply calls made on trial; gm is the call *)
(* of get_moves, running or returned; last is the last operation, the      *)
(* exception it raised, if any, and the document it wrote or read.         *)
(***************************************************************************)
VARIABLES board, trial, shared, snap, ops, gm, last

vars == <<board, trial, shared, snap, ops, gm, last>>

\* bounds of the model
MaxDim == 3

MaxPieces == 1

MaxCells == 6

MaxDocCells == 2

MaxTrialDim == 2

MaxTrialPieces == 2

MaxTrialOps == 2

MaxSpecial == 1

MaxMoveDim == 3

MaxExtras == 2

Coords(b) == {<<x, y>> : x \in 0..(b.w - 1), y \in 0..(b.h - 1)}

\* coordinates handed to an operation: the cells, and coordinates out of
\* range on each side
ArgCoords(b) == Coords(b) \cup {<<-1, 0>>, <<0, -1>>, <<b.w, 0>>, <<0, b.h>>}

\* the shifts handed to scroll: negative, zero, and larger than the board
ScrollArgs == {-(MaxDim + 1), -1, 0, 1, MaxDim + 1}

\* the scrolls made: the editor's four, the doctest's, and one past the board
ScrollCalls ==
    {<<0, -1>>, <<0, 1>>, <<-1, 0>>, <<1, 0>>, <<1, 1>>,
     <<MaxDim + 1, -(MaxDim + 1)>>}

\* the dir handed to move: it is read for a pawn only
DirArgs(piece) ==
    IF piece # None /\ piece_type(piece) = "P"
    THEN {<<>>} \cup {<<d>> : d \in MoveDirs}
    ELSE {<<>>, <<MOVE_N>>}

\* the pieces and squares the editing operations are given
EditPieces == {None, Piece("K", 1)}

EditSquares == {None, Square(CHAR_NORMAL), Square(CHAR_BACKSLASH)}

NumPieces(b) == Cardinality({i \in 1..Len(b.pieces) : b.pieces[i] # None})

\* the squares that are not Normal: holes and solid squares
NumSpecial(b) ==
    Cardinality({i \in 1..Len(b.squares) :
                    b.squares[i] = None \/ is_solid(b.squares[i])})

Idle == [active |-> FALSE, done |-> FALSE, err |-> "ok"]

Did(op, err) == [op |-> op, err |-> err, doc |-> None]

\* an operation that wrote or read the document doc
DidDoc(op, doc) == [op |-> op, err |-> "ok", doc |-> doc]

\* board's lists are written in place: trial sees the lists it shares
InPlace(b) ==
    /\ board' = b
    /\ trial' = IF trial = None THEN None
                ELSE [trial EXCEPT
                        !.squares = IF "squares" \in shared THEN b.squares ELSE @,
                        !.pieces = IF "pieces" \in shared THEN b.pieces ELSE @]
    /\ shared' = shared

\* board's lists are replaced by new lists: nothing is shared any more
Rebound(b) ==
    /\ board' = b
    /\ trial' = trial
    /\ shared' = {}

InitBoard ==
    /\ \E w \in 1..MaxDim, h \in 1..MaxDim :
          w * h <= MaxCells /\ board = NewBoard(w, h)
    /\ trial = None
    /\ shared = {}
    /\ snap = None
    /\ ops = 0
    /\ gm = Idle
    /\ last = Did("init", "ok")

SetSquare ==
    \E c \in ArgCoords(board), square \in EditSquares :
        LET r == set_square(board, c[1], c[2], square)
        IN  /\ trial = None
            /\ NumSpecial(r.board) <= MaxSpecial
            /\ InPlace(r.board)
            /\ last' = Did("set_square", r.err)
            /\ UNCHANGED <<snap, ops, gm>>

SetPiece ==
    \E c \in ArgCoords(board), piece \in EditPieces :
        LET r == set_piece(board, c[1], c[2], piece)
        IN  /\ trial = None
            /\ NumPieces(r.board) <= MaxPieces
            /\ InPlace(r.board)
            /\ last' = Did("set_piece", r.err)
            /\ UNCHANGED <<snap, ops, gm>>

Scroll ==
    \E add \in ScrollCalls :
        LET r == scroll(board, add[1], add[2])
        IN  /\ trial = None
            /\ IF r.err = "ok" THEN Rebound(r.board)
                               ELSE UNCHANGED <<board, trial, shared>>
            /\ last' = Did("scroll", r.err)
            /\ UNCHANGED <<snap, ops, gm>>

\* callers keep the dimensions non-negative (and the model, within MaxDim)
Resize ==
    \E add_w \in -MaxDim..MaxDim, add_h \in -MaxDim..MaxDim :
        /\ trial = None
        /\ board.w + add_w \in 0..MaxDim
        /\ board.h + add_h \in 0..MaxDim
        /\ (board.w + add_w) * (board.h + add_h) <= MaxCells
        /\ Rebound(resize(board, add_w, add_h))
        /\ last' = Did("resize", "ok")
        /\ UNCHANGED <<snap, ops, gm>>

\* board.move(x0, y0, x1, y1, dir); with no piece at (x0, y0) it raises
\* whatever the other arguments are
MovePiece ==
    \E c0 \in ArgCoords(board) :
        \E c1 \in IF get_piece(board, c0[1], c0[2]) = None
                  THEN {c0} ELSE ArgCoords(board),
           dir \in IF get_piece(board, c0[1], c0[2]) = None
                   THEN {<<>>} ELSE DirArgs(get_piece(board, c0[1], c0[2])) :
            LET r == move(board, c0[1], c0[2], c1[1], c1[2], dir)
            IN  /\ trial = None
                /\ InPlace(r.board)
                /\ last' = Did("move", r.err)
                /\ UNCHANGED <<snap, ops, gm>>

\* Board.apply of a PieceMove made of a LocatedPiece of the board and a Move
ApplyMove ==
    \E lp \in Range(list_pieces(board)), c1 \in ArgCoords(board),
       d \in MoveDirs :
        LET r == apply(board, PieceMove(lp, Move(c1[1], c1[2], d)))
        IN  /\ <<d>> \in DirArgs(lp.piece)
            /\ trial = None
            /\ InPlace(r.board)
            /\ last' = Did("apply", r.err)
            /\ UNCHANGED <<snap, ops, gm>>

\* the documents read from files: every list has w * h elements, each null
\* or a square's [char], a piece's [char, team]
DocSquares == {Null, <<CHAR_NORMAL>>, <<CHAR_BACKSLASH>>}

DocPieces == {Null, <<"K", 1>>}

DocsOf(w, h) ==
    [w : {w}, h : {h},
     squares : [1..(w * h) -> DocSquares],
     pieces : [1..(w * h) -> DocPieces]]

ValidDocs ==
    UNION {DocsOf(d[1], d[2]) :
           d \in {e \in (1..MaxDocCells) \X (1..MaxDocCells) :
                     e[1] * e[2] <= MaxDocCells}}

\* Editor.save_board: the document written is board.dump()
SaveBoard ==
    /\ trial = None
    /\ last' = DidDoc("dump", dump(board))
    /\ UNCHANGED <<board, trial, shared, snap, ops, gm>>

\* Editor.load_board: board becomes Board.load of the document read
LoadBoard ==
    \E data \in ValidDocs :
        /\ trial = None
        /\ NumPieces(load(data)) <= MaxPieces
        /\ NumSpecial(load(data)) <= MaxSpecial
        /\ Rebound(load(data))
        /\ last' = DidDoc("load", data)
        /\ UNCHANGED <<snap, ops, gm>>

\* new_board = board.copy_for_trying_out_moves(), as in get_board_score
CopyForTrial ==
    /\ trial = None
    /\ LET c == copy_for_trying_out_moves(board)
       IN  /\ trial' = c.board
           /\ shared' = c.shared
    /\ snap' = board
    /\ ops' = 0
    /\ last' = Did("copy_for_trying_out_moves", "ok")
    /\ UNCHANGED <<board, gm>>

\* a write in place to trial's pieces: board sees it if the list is shared
TrialInPlace(t) ==
    /\ ops < MaxTrialOps
    /\ ops' = ops + 1
    /\ trial' = t
    /\ board' = IF "pieces" \in shared THEN [board EXCEPT !.pieces = t.pieces]
                                      ELSE board
    /\ UNCHANGED <<shared, snap, gm>>

\* new_board.apply(piece_move), the PieceMove made of a LocatedPiece of board
TrialApply ==
    /\ trial # None
    /\ \E lp \in Range(list_pieces(snap)), c1 \in ArgCoords(trial),
          d \in MoveDirs :
           LET r == apply(trial, PieceMove(lp, Move(c1[1], c1[2], d)))
           IN  /\ <<d>> \in DirArgs(lp.piece)
               /\ TrialInPlace(r.board)
               /\ last' = Did("trial.apply", r.err)

\* new_board.move(x0, y0, x1, y1, dir)
TrialMove ==
    /\ trial # None
    /\ \E c0 \in ArgCoords(trial) :
        \E c1 \in IF get_piece(trial, c0[1], c0[2]) = None
                  THEN {c0} ELSE ArgCoords(trial),
           dir \in IF get_piece(trial, c0[1], c0[2]) = None
                   THEN {<<>>} ELSE DirArgs(get_piece(trial, c0[1], c0[2])) :
            LET r == move(trial, c0[1], c0[2], c1[1], c1[2], dir)
            IN  /\ TrialInPlace(r.board)
                /\ last' = Did("trial.move", r.err)

\* get_board_score returns: the trial copy is dropped
DropTrial ==
    /\ trial # None
    /\ trial' = None
    /\ shared' = {}
    /\ snap' = None
    /\ ops' = 0
    /\ last' = Did("drop", "ok")
    /\ UNCHANGED <<board, gm>>

NextBoard ==
    \/ SetSquare \/ SetPiece \/ Scroll \/ Resize \/ MovePiece \/ ApplyMove
    \/ SaveBoard \/ LoadBoard

\* the Board under its storage operations, from Board(w=w, h=h)
Spec == InitBoard /\ [][NextBoard]_vars

(***************************************************************************)
(* Trial copies.  The boards tried are those of the documents TrialDocs:   *)
(* a king and a long-range pawn of the other team.                         *)
(***************************************************************************)
TrialDocSquares == {<<CHAR_NORMAL>>}

TrialDocPieces == {Null, <<"K", 0>>, <<"^^", 1>>}

TrialDocs ==
    {d \in [w : {MaxTrialDim}, h : {MaxTrialDim},
            squares : [1..(MaxTrialDim * MaxTrialDim) -> TrialDocSquares],
            pieces : [1..(MaxTrialDim * MaxTrialDim) -> TrialDocPieces]] :
        /\ NumPieces(load(d)) \in 1..MaxTrialPieces
        /\ NumSpecial(load(d)) <= MaxSpecial}

InitTrial ==
    /\ \E d \in TrialDocs : board = load(d)
    /\ trial = None
    /\ shared = {}
    /\ snap = None
    /\ ops = 0
    /\ gm = Idle
    /\ last = Did("init", "ok")

NextTrial == CopyForTrial \/ TrialApply \/ TrialMove \/ DropTrial

SpecTrial == InitTrial /\ [][NextTrial]_vars

(***************************************************************************)
(* Move generation.  The boards are a family: a main piece of team 0 on a  *)
(* board of MaxMoveDim x MaxMoveDim Normal squares, and at most MaxExtras  *)
(* extras, each a special square or another piece.                         *)
(***************************************************************************)
MainPieces == {Piece(c, 0) : c \in {"K", "Q", "R", "B", "N", "^^", ">"}}

\* a corner, the centre, and the middle of the last row
MainCells == {<<0, 0>>, <<1, 1>>, <<1, MaxMoveDim - 1>>}

MoveCells == (0..(MaxMoveDim - 1)) \X (0..(MaxMoveDim - 1))

SquareEdit(c, square) == [kind |-> "square", c |-> c, square |-> square]

PieceEdit(c, piece) == [kind |-> "piece", c |-> c, piece |-> piece]

\* a hole, a bouncer that turns and one that reflects; an enemy, a friend
MoveEdits ==
    {SquareEdit(c, sq) : c \in MoveCells,
        sq \in {None, Square(CHAR_BACKSLASH), Square(CHAR_HYPHEN)}}
    \cup {PieceEdit(c, pc) : c \in MoveCells,
            pc \in {Piece("R", 1), Piece("N", 0)}}

\* the bouncers, as they make the reflection cycles, and an enemy
WalkEdits ==
    {SquareEdit(c, sq) : c \in MoveCells,
        sq \in {Square(CHAR_BACKSLASH), Square(CHAR_HYPHEN)}}
    \cup {PieceEdit(c, Piece("R", 1)) : c \in MoveCells}

\* at most MaxExtras - 1 edits out of edits, then one more or none
RECURSIVE EditSets(_, _)
EditSets(edits, n) ==
    IF n = 0 THEN {{}}
    ELSE LET less == EditSets(edits, n - 1)
         IN  less \cup {es \cup {e} : es \in less, e \in edits}

\* no two edits of one kind at one cell, no second piece on the main cell
EditsFit(es, cell) ==
    /\ \A e1 \in es, e2 \in es :
          (e1.kind = e2.kind /\ e1.c = e2.c) => e1 = e2
    /\ \A e \in es : e.kind = "piece" => e.c # cell

\* the board with the main piece at cell and the edits es made
FamilyBoard(main, cell, es) ==
    LET at(i) == <<(i - 1) % MaxMoveDim, (i - 1) \div MaxMoveDim>>
        n == MaxMoveDim * MaxMoveDim
    IN  Board(MaxMoveDim, MaxMoveDim,
              [i \in 1..n |->
                  IF \E e \in es : e.kind = "square" /\ e.c = at(i)
                  THEN (CHOOSE e \in es : e.kind = "square" /\ e.c = at(i)).square
                  ELSE Square(CHAR_NORMAL)],
              [i \in 1..n |->
                  IF at(i) = cell THEN main
                  ELSE IF \E e \in es : e.kind = "piece" /\ e.c = at(i)
                  THEN (CHOOSE e \in es : e.kind = "piece" /\ e.c = at(i)).piece
                  ELSE None])

InitFamily(edits) ==
    /\ \E main \in MainPieces, cell \in MainCells,
          es \in EditSets(edits, MaxExtras) :
            /\ EditsFit(es, cell)
            /\ board = FamilyBoard(main, cell, es)
    /\ trial = None
    /\ shared = {}
    /\ snap = None
    /\ ops = 0
    /\ gm = Idle
    /\ last = Did("init", "ok")

InitMoves == InitFamily(MoveEdits)

\* what a finished call of get_moves leaves: its origin and its sets
Returned(o, st, iters) ==
    [active |-> FALSE, done |-> TRUE, err |-> "ok",
     o |-> o, st |-> st, iters |-> iters]

\* board.get_moves(x, y), start to return; with no piece there it raises
GetMoves ==
    \E c \in ArgCoords(board) :
        /\ ~gm.active
        /\ gm' = IF get_moves_raises(board, c[1], c[2])
                 THEN [active |-> FALSE, done |-> FALSE, err |-> "Exception"]
                 ELSE Returned(Origin(board, c[1], c[2]),
                               get_moves_sets(board, c[1], c[2]), 0)
        /\ UNCHANGED <<board, trial, shared, snap, ops, last>>

NextMoves == GetMoves

SpecMoves == InitMoves /\ [][NextMoves]_vars

(***************************************************************************)
(* get_moves step by step.  While a call runs, gm holds its origin o, the  *)
(* calls its body has still to make, the walker of the check_line it is    *)
(* in (line, or None), the sets st, and iters: the number of check_move    *)
(* calls made so far.                                                      *)
(***************************************************************************)
InitWalk == InitFamily(WalkEdits)

StartGetMoves ==
    \E c \in Coords(board) :
        /\ ~gm.active
        /\ get_piece(board, c[1], c[2]) # None
        /\ gm' = [active |-> TRUE, done |-> FALSE, err |-> "ok",
                  o |-> Origin(board, c[1], c[2]),
                  calls |-> get_moves_calls(get_piece(board, c[1], c[2]), c[1], c[2]),
                  line |-> None,
                  st |-> EmptySets,
                  iters |-> 0]
        /\ UNCHANGED <<board, trial, shared, snap, ops, last>>

\* the body calls check_move(x, y, dir, can_take)
CallCheckMove ==
    /\ gm.active
    /\ gm.line = None
    /\ gm.calls # <<>>
    /\ Head(gm.calls).op = "check_move"
    /\ LET c == Head(gm.calls)
       IN  gm' = [gm EXCEPT
                    !.calls = Tail(@),
                    !.st = check_move(board, gm.o, @, c.x, c.y, c.dir, c.can_take).st,
                    !.iters = @ + 1]
    /\ UNCHANGED <<board, trial, shared, snap, ops, last>>

\* the body calls check_line(dir, max_moves, can_take): the walker is set
EnterLine ==
    /\ gm.active
    /\ gm.line = None
    /\ gm.calls # <<>>
    /\ Head(gm.calls).op = "check_line"
    /\ LET c == Head(gm.calls)
       IN  gm' = [gm EXCEPT
                    !.calls = Tail(@),
                    !.line = [cur |-> check_line_start(gm.o, c.dir),
                              max_moves |-> c.max_moves,
                              can_take |-> c.can_take,
                              adds0 |-> gm.st.adds]]
    /\ UNCHANGED <<board, trial, shared, snap, ops, last>>

\* one iteration of check_line's loop
LineStep ==
    /\ gm.active
    /\ gm.line # None
    /\ LET it == check_line_iter(board, gm.o, gm.st, gm.line.cur,
                                 gm.line.max_moves, gm.line.can_take)
       IN  gm' = [gm EXCEPT
                    !.st = it.st,
                    !.line = IF it.continue THEN [@ EXCEPT !.cur = it.cur]
                                            ELSE None,
                    !.iters = @ + 1]
    /\ UNCHANGED <<board, trial, shared, snap, ops, last>>

\* the body is through: get_moves returns "moves"
ReturnMoves ==
    /\ gm.active
    /\ gm.line = None
    /\ gm.calls = <<>>
    /\ gm' = Returned(gm.o, gm.st, gm.iters)
    /\ UNCHANGED <<board, trial, shared, snap, ops, last>>

WalkStep == CallCheckMove \/ EnterLine \/ LineStep \/ ReturnMoves

NextWalk == StartGetMoves \/ WalkStep

SpecWalk == InitWalk /\ [][NextWalk]_vars

(***************************************************************************)
(* The AI at work.  The boards are MaxAIDim wide and high: the top row is  *)
(* the home of team 0, the bottom row the home of team 1, each holding    *)
(* kings from the left; the row between them is open, or all               *)
(* holes, or all bouncers, or holds a rook of the last team, or a pawn of  *)
(* team 0 facing the bottom row.  last holds the answer of the one call    *)
(* made on the position: it is read, and its first move perhaps played,    *)
(* before anything else is asked.  A move is played MaxAIMoves times at    *)
(* most.                                                                   *)
(***************************************************************************)
MaxAIDim == 3

MaxAIMoves == 1

MaxFuture == 1

AITeams == {0, 1, N_TEAMS - 1}

HomeRow(n, team) ==
    [i \in 1..MaxAIDim |-> IF i <= n THEN Piece("K", team) ELSE None]

MiddleRow(square, piece) ==
    [squares |-> Repeat(square, MaxAIDim),
     pieces  |-> [i \in 1..MaxAIDim |-> IF i = 2 THEN piece ELSE None]]

MiddleRows ==
    {MiddleRow(Square(CHAR_NORMAL), None),
     MiddleRow(None, None),
     MiddleRow(Square(CHAR_HYPHEN), None),
     MiddleRow(Square(CHAR_NORMAL), Piece("R", N_TEAMS - 1)),
     MiddleRow(Square(CHAR_NORMAL), Piece("vv", 0))}

AIBoard(n0, mid, n1) ==
    Board(MaxAIDim, MaxAIDim,
          Repeat(Square(CHAR_NORMAL), MaxAIDim) \o mid.squares
              \o Repeat(Square(CHAR_NORMAL), MaxAIDim),
          HomeRow(n0, 0) \o mid.pieces \o HomeRow(n1, 1))

\* a home row is empty, or holds one king, or is full
HomeSizes == {0, 1, MaxAIDim}

InitAI ==
    /\ \E n0 \in HomeSizes, n1 \in HomeSizes, mid \in MiddleRows :
           board = AIBoard(n0, mid, n1)
    /\ trial = None
    /\ shared = {}
    /\ snap = None
    /\ ops = 0
    /\ gm = Idle
    /\ last = Did("init", "ok")

\* no answer is in hand
Unasked == last.op \in {"init", "apply"}

\* what a call of get_state_score leaves in last: the state it was given and
\* the score it returned
Scored(team, state, score) ==
    [op |-> "get_state_score", err |-> score.err, doc |-> None,
     team |-> team, state |-> state,
     score |-> IF score.err = "ok" THEN score.score ELSE None]

\* the call made on a state in hand
ScoreOf(team, state) == Scored(team, state, state_score(team, state))

\* state = board.get_state(); FutureSeekerAI(team).get_state_score(state)
GetStateScore ==
    \E team \in AITeams :
        /\ Unasked
        /\ last' = ScoreOf(team, get_state(board))
        /\ UNCHANGED <<board, trial, shared, snap, ops, gm>>

\* what a call of find_next_move leaves in last: next_moves, the list that
\* find_next_moves returned to it, and the entry it returned
Asked(team, future, next_moves) ==
    [op |-> "find_next_move", err |-> next_moves.err, doc |-> None,
     team |-> team, future |-> future,
     next_moves |-> IF next_moves.err = "ok" THEN next_moves.moves ELSE <<>>,
     move |-> IF next_moves.err = "ok" THEN first_or_none(next_moves).move ELSE None]

\* ai = FutureSeekerAI(team); ai.future_sight = future;
\* ai.find_next_move(board)
FindNextMove ==
    \E team \in AITeams, future \in 0..MaxFuture :
        /\ Unasked
        /\ last' = Asked(team, future, find_next_moves(team, future, board))
        /\ UNCHANGED <<board, trial, shared, snap, ops, gm>>

\* what board.apply(piece_move) leaves in last: the board as it was
Applied(piece_move, done, before) ==
    [op |-> "apply", err |-> done.err, doc |-> None,
     piece_move |-> piece_move, before |-> before]

\* board.apply(PieceMove(piece, move)) for a piece of the board and a move of
\* board.get_moves(piece.x, piece.y)
ApplyPieceMove ==
    \E i \in 1..Len(list_pieces(board)) :
        LET piece == list_pieces(board)[i]
        IN  \E m \in get_moves(board, piece.x, piece.y) :
                LET done == apply(board, PieceMove(piece, m))
                IN  /\ Unasked
                    /\ ops < MaxAIMoves
                    /\ ops' = ops + 1
                    /\ board' = done.board
                    /\ last' = Applied(PieceMove(piece, m), done, board)
                    /\ UNCHANGED <<trial, shared, snap, gm>>

\* move, score = ai.find_next_move(board); board.apply(move)
ApplyNextMove ==
    /\ last.op = "find_next_move"
    /\ last.move # None
    /\ last.move[1] # None
    /\ ops < MaxAIMoves
    /\ ops' = ops + 1
    /\ LET done == apply(board, last.move[1])
       IN  /\ board' = done.board
           /\ last' = Applied(last.move[1], done, board)
    /\ UNCHANGED <<trial, shared, snap, gm>>

NextAI ==
    \/ GetStateScore
    \/ FindNextMove
    \/ ApplyPieceMove
    \/ ApplyNextMove

SpecAI == InitAI /\ [][NextAI]_vars

(***************************************************************************)
(* The editor at work on its board: the square and piece toggles of       *)
(* Editor.view_board, scroll and resize, and the moves of a piece taken    *)
(* from get_moves.  The cursor is a cell of the board, or lies just off a  *)
(* board that shrank.  At most MaxEditPieces pieces are put on the board;  *)
(* a square is toggled while the board keeps to MaxSpecial holes and solid *)
(* squares, so the holes that resize adds stay.                            *)
(***************************************************************************)
MaxEditPieces == 2

\* the key of a square char at the cursor, were the piece of the cell left
\* where it is
ToggleSquare_keeping_piece ==
    \E c \in ArgCoords(board),
       char \in {CHAR_NORMAL, CHAR_ENTER, CHAR_BACKSLASH} :
        LET old == get_square(board, c[1], c[2])
            square == IF old # None
                      THEN IF old.char = char THEN None ELSE Square(char)
                      ELSE Square(char)
            done == set_square(board, c[1], c[2], square)
        IN  /\ trial = None
            /\ NumSpecial(done.board) <= MaxSpecial
            /\ InPlace(done.board)
            /\ last' = Did("toggle_square", done.err)
            /\ UNCHANGED <<snap, ops, gm>>

\* the key of a square char at the cursor: the square is made, changed, or
\* removed if it has that char already; the piece of a cell left without a
\* Normal square is removed
ToggleSquare ==
    \E c \in ArgCoords(board),
       char \in {CHAR_NORMAL, CHAR_ENTER, CHAR_BACKSLASH} :
        LET old == get_square(board, c[1], c[2])
            square == IF old # None
                      THEN IF old.char = char THEN None ELSE Square(char)
                      ELSE Square(char)
            r == set_square(board, c[1], c[2], square)
            done == IF r.err = "ok" /\ (square = None \/ is_solid(square))
                    THEN set_piece(r.board, c[1], c[2], None)
                    ELSE r
        IN  /\ trial = None
            /\ NumSpecial(done.board) <= MaxSpecial
            /\ InPlace(done.board)
            /\ last' = Did("toggle_square", done.err)
            /\ UNCHANGED <<snap, ops, gm>>

\* the Enter key at the cursor: on a cell that is not solid the editor's
\* piece is put, or removed if it stands there already
TogglePiece ==
    \E c \in ArgCoords(board), piece \in {Piece("K", 1), Piece("R", 0)} :
        LET r == IF is_solid_at(board, c[1], c[2])
                 THEN [board |-> board, err |-> "ok"]
                 ELSE IF get_piece(board, c[1], c[2]) = piece
                 THEN set_piece(board, c[1], c[2], None)
                 ELSE set_piece(board, c[1], c[2], piece)
        IN  /\ trial = None
            /\ NumPieces(r.board) <= MaxEditPieces
            /\ InPlace(r.board)
            /\ last' = Did("toggle_piece", r.err)
            /\ UNCHANGED <<snap, ops, gm>>

\* board.apply(PieceMove(piece, move)) for a piece of the board and a move
\* of board.get_moves(piece.x, piece.y)
ApplyLegalMove ==
    \E lp \in Range(list_pieces(board)) :
        \E m \in get_moves(board, lp.x, lp.y) :
            LET r == apply(board, PieceMove(lp, m))
            IN  /\ trial = None
                /\ InPlace(r.board)
                /\ last' = Did("apply_legal", r.err)
                /\ UNCHANGED <<snap, ops, gm>>

NextEdit == ToggleSquare \/ TogglePiece \/ Scroll \/ Resize \/ ApplyLegalMove

SpecEdit == InitBoard /\ [][NextEdit]_vars

(***************************************************************************)
(* Properties of get_moves, checked under SpecMoves and SpecWalk.          *)
(***************************************************************************)
\* C1: every Move returned by get_moves has 0 <= x < w and 0 <= y < h, and
\* the square at (x, y) is present and Normal: never a hole, an Enter or
\* Exit square, or a bouncer.
C1_LegalDestination ==
    gm.done =>
        \A m \in gm.st.moves :
            /\ 0 <= m.x /\ m.x < board.w
            /\ 0 <= m.y /\ m.y < board.h
            /\ get_square(board, m.x, m.y) # None
            /\ get_square(board, m.x, m.y).char = CHAR_NORMAL

C1_Witness ==
    /\ gm.done
    /\ gm.st.moves # {}
    /\ \E k \in gm.st.checked : get_square(board, k.x, k.y) = None
    /\ \E k \in gm.st.checked :
          /\ get_square(board, k.x, k.y) # None
          /\ get_square(board, k.x, k.y).char \in BOUNCE_CHARS

\* C2 (as the claim states it): no Move returned has a destination cell
\* holding a piece of the team of the piece at the origin.
C2_NoSameTeamDestination ==
    gm.done =>
        \A m \in gm.st.moves :
            \/ get_piece(board, m.x, m.y) = None
            \/ get_piece(board, m.x, m.y).team # gm.o.team

\* C2 (amended): no Move returned has a destination, other than the origin
\* itself, holding a piece of the team of the piece at the origin; a walk
\* turned back by bouncers does return the origin as a destination.
C2_NoSelfCapture ==
    gm.done =>
        \A m \in gm.st.moves :
            \/ m.x = gm.o.x0 /\ m.y = gm.o.y0
            \/ get_piece(board, m.x, m.y) = None
            \/ get_piece(board, m.x, m.y).team # gm.o.team

C2_Witness ==
    /\ gm.done
    /\ \E m \in gm.st.moves : m.x = gm.o.x0 /\ m.y = gm.o.y0
    /\ \E k \in gm.st.checked \ gm.st.moves :
          /\ ~(k.x = gm.o.x0 /\ k.y = gm.o.y0)
          /\ get_square(board, k.x, k.y) = Square(CHAR_NORMAL)
          /\ get_piece(board, k.x, k.y) # None
          /\ get_piece(board, k.x, k.y).team = gm.o.team

\* the walker stands on a cell, with a direction, that is already in "checked"
AtVisited ==
    /\ gm.active
    /\ gm.line # None
    /\ Move(gm.line.cur.x, gm.line.cur.y, gm.line.cur.dir) \in gm.st.checked

\* C3: within one call of get_moves no (x, y, dir) is examined past the
\* visited check twice (checked.add has run once per element of "checked"),
\* so a ray walk, and the whole call, makes at most 8 * w * h examinations;
\* a walker that comes upon a visited (x, y, dir) stops without examining it;
\* and a running call always has a next step, of which it takes at most
\* 8 * w * h + 8.
C3_BouncerTermination ==
    (gm.active \/ gm.done) =>
        /\ gm.st.adds = Cardinality(gm.st.checked)
        /\ gm.st.adds <= 8 * board.w * board.h
        /\ gm.iters <= gm.st.adds + 8
        /\ gm.active =>
              /\ ENABLED WalkStep
              /\ gm.line # None =>
                    gm.st.adds - gm.line.adds0 <= 8 * board.w * board.h
        /\ AtVisited =>
              LET it == check_line_iter(board, gm.o, gm.st, gm.line.cur,
                                        gm.line.max_moves, gm.line.can_take)
              IN  ~it.continue /\ it.st = gm.st

C3_Witness ==
    /\ AtVisited
    /\ gm.line.cur.dir # Head(get_moves_calls(get_piece(board, gm.o.x0, gm.o.y0),
                                               gm.o.x0, gm.o.y0)).dir
    /\ gm.st.adds - gm.line.adds0 > 2

(***************************************************************************)
(* Properties of trial copies and of apply, checked under SpecTrial.       *)
(***************************************************************************)
\* C4: the copy made by copy_for_trying_out_moves has, when made, the w, h,
\* squares and pieces of the board; and whatever apply and move calls are
\* made on the copy, the w, h, squares and pieces of the board stay what
\* they were when the copy was made.
C4_TrialIsolation ==
    trial # None =>
        /\ board.w = snap.w /\ board.h = snap.h
        /\ board.squares = snap.squares
        /\ board.pieces = snap.pieces
        /\ ops = 0 =>
              /\ trial.w = board.w /\ trial.h = board.h
              /\ trial.squares = board.squares
              /\ trial.pieces = board.pieces

C4_Witness ==
    /\ trial # None
    /\ ops > 1
    /\ last.err = "ok"
    /\ trial.pieces # board.pieces
    /\ NumPieces(trial) < NumPieces(board)

\* the boards at hand: the board and its trial copy
BoardsAtHand == {board} \cup (IF trial = None THEN {} ELSE {trial})

\* the pawn direction named for a cardinal move direction
FacingOf(d) ==
    CASE d = MOVE_N -> "u" [] d = MOVE_E -> "r"
      [] d = MOVE_S -> "d" [] d = MOVE_W -> "l"

\* C5: apply of the PieceMove of a piece located at (x0, y0) and a Move
\* (x1, y1, dir) to an in-range cell leaves at (x1, y1) the moved piece, of
\* the same team, empties (x0, y0) when it is another cell, and leaves every
\* other cell and all squares alone; a pawn (dir cardinal) then faces the
\* way of dir and is not long-range; any other piece is unchanged.
C5_ApplyMove ==
    \A b \in BoardsAtHand :
        \A lp \in Range(list_pieces(b)), c1 \in Coords(b), d \in MoveDirs :
            (piece_type(lp.piece) = "P" => d \in {MOVE_N, MOVE_E, MOVE_S, MOVE_W})
            => LET r == apply(b, PieceMove(lp, Move(c1[1], c1[2], d)))
                   a == r.board
                   moved == get_piece(a, c1[1], c1[2])
               IN  /\ r.err = "ok"
                   /\ moved # None
                   /\ moved.team = lp.piece.team
                   /\ <<lp.x, lp.y>> # c1 => get_piece(a, lp.x, lp.y) = None
                   /\ \A c \in Coords(b) \ {c1, <<lp.x, lp.y>>} :
                         get_piece(a, c[1], c[2]) = get_piece(b, c[1], c[2])
                   /\ a.w = b.w /\ a.h = b.h /\ a.squares = b.squares
                   /\ IF piece_type(lp.piece) = "P"
                      THEN /\ piece_type(moved) = "P"
                           /\ piece_dir(moved) = FacingOf(d)
                           /\ pawn_type(moved) = 0
                      ELSE moved = lp.piece

C5_Witness ==
    /\ trial # None
    /\ last.op = "trial.apply"
    /\ last.err = "ok"
    /\ NumPieces(trial) < NumPieces(board)
    /\ \E lp \in Range(list_pieces(trial)) :
          /\ piece_type(lp.piece) = "P"
          /\ piece_dir(lp.piece) = "r"
          /\ pawn_type(lp.piece) = 0

(***************************************************************************)
(* Properties of the storage operations, checked under Spec.               *)
(***************************************************************************)
\* a and b have the same dimensions and, read through get_square and
\* get_piece, the same cells
CellsEq(a, b) ==
    /\ a.w = b.w
    /\ a.h = b.h
    /\ \A c \in Coords(a) :
          /\ get_square(a, c[1], c[2]) = get_square(b, c[1], c[2])
          /\ get_piece(a, c[1], c[2]) = get_piece(b, c[1], c[2])

\* both lists hold exactly w * h elements
WellFormed(b) ==
    /\ Len(b.squares) = b.w * b.h
    /\ Len(b.pieces) = b.w * b.h

\* C6 (as the claim states it): a board whose state id equals that of the
\* current board has the current board's dimensions and cells.
C6_FingerprintIdentifies ==
    \A d \in ValidDocs :
        get_state_id(load(d)) = get_state_id(board) => CellsEq(load(d), board)

\* C7: the board rebuilt from its own dump has the same w, h, squares and
\* pieces, hence the same state id and the same moves at every piece; and the
\* dump of the board loaded from a document (nulls for holes and empty cells,
\* [char] for a square, [char, team] for a piece) is that document.
C7_RoundTrip ==
    /\ LET b2 == load(dump(board))
       IN  /\ b2.w = board.w /\ b2.h = board.h
           /\ b2.squares = board.squares /\ b2.pieces = board.pieces
           /\ get_state_id(b2) = get_state_id(board)
           /\ \A lp \in Range(list_pieces(board)) :
                 get_moves(b2, lp.x, lp.y) = get_moves(board, lp.x, lp.y)
    /\ last.op = "load" => dump(board) = last.doc
    /\ last.op = "dump" => load(last.doc) = board

C7_Witness ==
    /\ last.op = "load"
    /\ NumPieces(board) = 1
    /\ NumSpecial(board) = 1
    /\ Len(last.doc.pieces) > 1

\* C8 (as the claim states it): the squares list and the pieces list each
\* hold exactly w * h elements, and so do the lists dump writes.
C8_StorageSize ==
    /\ WellFormed(board)
    /\ Len(dump(board).squares) = board.w * board.h
    /\ Len(dump(board).pieces) = board.w * board.h

\* C9: on a board with w, h >= 1, scroll(dx, dy) keeps w and h and takes the
\* square and the piece of every cell (x, y) to ((x + dx) mod w,
\* (y + dy) mod h); scroll(-dx, -dy) after it restores every cell (and the
\* very lists, when they held w * h elements), and scroll(w, h) changes
\* nothing.
C9_Scroll ==
    (board.w >= 1 /\ board.h >= 1) =>
        /\ \A dx \in ScrollArgs, dy \in ScrollArgs :
              LET r == scroll(board, dx, dy)
                  back == scroll(r.board, -dx, -dy)
              IN  /\ r.err = "ok"
                  /\ r.board.w = board.w /\ r.board.h = board.h
                  /\ \A c \in Coords(board) :
                        LET x1 == (c[1] + dx) % board.w
                            y1 == (c[2] + dy) % board.h
                        IN  /\ get_square(r.board, x1, y1)
                                = get_square(board, c[1], c[2])
                            /\ get_piece(r.board, x1, y1)
                                = get_piece(board, c[1], c[2])
                  /\ back.err = "ok"
                  /\ CellsEq(back.board, board)
                  /\ WellFormed(board) => back.board = board
        /\ CellsEq(scroll(board, board.w, board.h).board, board)
        /\ WellFormed(board) => scroll(board, board.w, board.h).board = board

C9_Witness ==
    /\ last.op = "scroll"
    /\ last.err = "ok"
    /\ board.w > 1 /\ board.h > 1
    /\ get_piece(board, 1, 1) # None
    /\ \E c \in Coords(board) : get_square(board, c[1], c[2]) = None

\* C10: resize(dw, dh) with w + dw >= 0 and h + dh >= 0 sets the dimensions
\* to (w + dw, h + dh); every cell with x < min(w, w + dw) and
\* y < min(h, h + dh) keeps its square and piece, every other cell of the
\* new board is a hole without a piece, and no piece is listed outside the
\* new range.
C10_Resize ==
    \A dw \in -MaxDim..MaxDim, dh \in -MaxDim..MaxDim :
        (board.w + dw >= 0 /\ board.h + dh >= 0) =>
            LET r == resize(board, dw, dh)
            IN  /\ r.w = board.w + dw
                /\ r.h = board.h + dh
                /\ \A c \in Coords(r) :
                      IF c[1] < Min(board.w, r.w) /\ c[2] < Min(board.h, r.h)
                      THEN /\ get_square(r, c[1], c[2])
                               = get_square(board, c[1], c[2])
                           /\ get_piece(r, c[1], c[2])
                               = get_piece(board, c[1], c[2])
                      ELSE /\ get_square(r, c[1], c[2]) = None
                           /\ get_piece(r, c[1], c[2]) = None
                /\ \A lp \in Range(list_pieces(r)) :
                      /\ <<lp.x, lp.y>> \in Coords(r)
                      /\ lp.x < board.w /\ lp.y < board.h
                      /\ get_piece(board, lp.x, lp.y) = lp.piece

C10_Witness ==
    /\ last.op = "resize"
    /\ NumPieces(board) = 1
    /\ \E c \in Coords(board) : get_square(board, c[1], c[2]) = None
    /\ ~WellFormed(board)

(***************************************************************************)
(* Properties of the search and of the evaluation                          *)
(***************************************************************************)
\* the team has no legal move on the board: it has no piece, or the move
\* set of each of its pieces is empty
NoLegalMove(b, team) ==
    \A i \in 1..Len(list_pieces(b)) :
        list_pieces(b)[i].piece.team = team
            => get_moves(b, list_pieces(b)[i].x, list_pieces(b)[i].y) = {}

\* the boards the look-ahead of find_next_moves reaches one ply ahead: b with
\* one PieceMove of the team applied
OnePlyAhead(b, team) ==
    UNION {{apply(b, PieceMove(lp, m)).board : m \in get_moves(b, lp.x, lp.y)} :
              lp \in {q \in Range(list_pieces(b)) : q.piece.team = team}}

\* C11: during a look-ahead (future > 0), when the team whose turn it is has
\* no legal move on the board reached - it has no piece there, or only pieces
\* whose move sets are empty - the search does not fail, and the reply of
\* that team is the empty move, scored as the same board is scored with one
\* ply less for the next team.
C11_EmptyMoveInLookAhead ==
    (last.op = "find_next_move" /\ last.future > 0) =>
        \A nb \in OnePlyAhead(board, last.team) :
            LET next == (last.team + 1) % N_TEAMS
            IN  NoLegalMove(nb, next) =>
                    /\ last.err = "ok"
                    /\ find_next_moves_future(last.team, nb, last.future - 1, next, TRUE)
                         = [err |-> "ok",
                            moves |-> << <<None,
                                get_board_score(last.team, nb, None,
                                                last.future - 1, next).score>> >>]
\* C12: when a PieceMove made of a piece of the board and of a Move of its
\* get_moves set is applied and the destination cell held no enemy piece,
\* the teams on the board and, for every team, the number of its pieces of
\* each kind are what they were before; a Move that comes back to the
\* piece's own cell through bouncers is such a move.
C12_MaterialConserved ==
    (/\ last.op = "apply"
     /\ LET there == get_piece(last.before, last.piece_move.move.x,
                                last.piece_move.move.y)
        IN  there = None \/ there.team = last.piece_move.piece.piece.team) =>
        /\ get_state(board).teams = get_state(last.before).teams
        /\ get_state(board).material_by_team
               = get_state(last.before).material_by_team

\* a move that came back to the piece's own cell was applied
C12_Witness ==
    /\ last.op = "apply"
    /\ last.err = "ok"
    /\ last.piece_move.move.x = last.piece_move.piece.x
    /\ last.piece_move.move.y = last.piece_move.piece.y
    /\ get_piece(board, last.piece_move.move.x, last.piece_move.move.y)
           = last.piece_move.piece.piece

\* C13: the list that find_next_moves returns is non-increasing in score (no
\* entry scores below the entry after it), and find_next_move returns the
\* first entry of that list, an entry that no entry of the list outscores,
\* or None when the list is empty.
C13_SortContract ==
    (last.op = "find_next_move" /\ last.err = "ok") =>
        /\ \A i \in 1..(Len(last.next_moves) - 1) :
               ~float_lt(last.next_moves[i][2], last.next_moves[i + 1][2])
        /\ IF last.next_moves = <<>>
           THEN last.move = None
           ELSE /\ last.move = last.next_moves[1]
                /\ \A i \in 1..Len(last.next_moves) :
                       ~float_lt(last.move[2], last.next_moves[i][2])

\* a list was returned whose last entry scores below its first
C13_Witness ==
    /\ last.op = "find_next_move"
    /\ last.err = "ok"
    /\ Len(last.next_moves) >= 3
    /\ float_lt(last.next_moves[Len(last.next_moves)][2], last.next_moves[1][2])
    /\ last.move = last.next_moves[1]

\* C14: with future_sight = 0, find_next_moves(board) of the evaluator of
\* self_team returns one entry for every pair of a located piece of self_team
\* and a Move of get_moves of its cell, and no other entry; the score of an
\* entry is get_state_score of the state of the board that applying the
\* entry's PieceMove to a trial copy gives; the list is empty when self_team
\* has no piece on the board.
C14_OnePlyEntries ==
    (last.op = "find_next_move" /\ last.future = 0) =>
        LET mine == {i \in 1..Len(list_pieces(board)) :
                        list_pieces(board)[i].piece.team = last.team}
            expected == UNION {{PieceMove(list_pieces(board)[i], m) :
                                   m \in get_moves(board, list_pieces(board)[i].x,
                                                   list_pieces(board)[i].y)} :
                               i \in mine}
            returned == {last.next_moves[k][1] : k \in 1..Len(last.next_moves)}
        IN  /\ last.err = "ok"
            /\ returned = expected
            /\ Len(last.next_moves) = Cardinality(expected)
            /\ \A k \in 1..Len(last.next_moves) :
                   last.next_moves[k][2] =
                       get_state_score(last.team,
                           get_state(apply(copy_for_trying_out_moves(board).board,
                                           last.next_moves[k][1]).board))
            /\ (mine = {}) => last.next_moves = <<>>

\* the team asked has two pieces or more, with several moves between them
C14_Witness ==
    /\ last.op = "find_next_move"
    /\ last.future = 0
    /\ last.err = "ok"
    /\ Len(last.next_moves) >= 4
    /\ \E k \in 1..Len(last.next_moves) :
           last.next_moves[k][1].piece # last.next_moves[1][1].piece

\* C15: a position in which teams 0 and 1 are the only teams and have the
\* same material histogram, the same number of pieces of every move count
\* and so the same number of stuck pieces, scores exactly 0 for the
\* evaluator of team 0 and for the evaluator of team 1.
C15_SymmetricScoreIsZero ==
    (/\ last.op = "get_state_score"
     /\ last.err = "ok"
     /\ last.team \in {0, 1}
     /\ last.state.teams = {0, 1}
     /\ last.state.material_by_team[0] = last.state.material_by_team[1]
     /\ LET pairs(team) == last.state.pieces_and_moves_by_team[team]
            having(team, n) ==
                Cardinality({i \in 1..Len(pairs(team)) :
                                Cardinality(pairs(team)[i][2]) = n})
        IN  \A n \in 0..(8 * board.w * board.h) : having(0, n) = having(1, n)) =>
        last.score = float_of_int(0)

(***************************************************************************)
(* Properties of coordinates off the board, checked under Spec.            *)
(***************************************************************************)
\* C16: for every (x, y) outside the board, a negative coordinate included,
\* set_piece and set_square raise IndexError and leave squares and pieces as
\* they are, and get_piece and get_square return None, whatever the cells of
\* the board hold; get_moves at a coordinate that holds no piece raises.
C16_OutOfRange ==
    \A c \in ArgCoords(board) :
        /\ c \notin Coords(board) =>
               /\ \A piece \in EditPieces :
                      set_piece(board, c[1], c[2], piece)
                          = [board |-> board, err |-> "IndexError"]
               /\ \A square \in EditSquares :
                      set_square(board, c[1], c[2], square)
                          = [board |-> board, err |-> "IndexError"]
               /\ get_piece(board, c[1], c[2]) = None
               /\ get_square(board, c[1], c[2]) = None
               /\ get_moves_raises(board, c[1], c[2])
        /\ (c \in Coords(board) /\ board.pieces[c[2] * board.w + c[1] + 1] = None) =>
               get_moves_raises(board, c[1], c[2])
        /\ (c \in Coords(board) /\ board.pieces[c[2] * board.w + c[1] + 1] # None) =>
               ~get_moves_raises(board, c[1], c[2])

\* a setter was called outside a board whose last cell holds a piece and
\* whose first cell is a hole or a bouncer, and raised
C16_Witness ==
    /\ last.op \in {"set_piece", "set_square"}
    /\ last.err = "IndexError"
    /\ get_piece(board, board.w - 1, board.h - 1) # None
    /\ is_solid_at(board, 0, 0)

(***************************************************************************)
(* Properties of the squares and of the pieces' rules, checked under       *)
(* SpecWalk and SpecMoves; of BoardState, under SpecAI.                    *)
(***************************************************************************)
\* C17: the reflection of a bouncer is the listed mapping and nothing else:
\* backslash N<->W, E<->S, NE<->SW; slash N<->E, W<->S, NW<->SE; hyphen
\* N<->S, NE<->SE, NW<->SW; pipe E<->W, NE<->NW, SE<->SW.  It is undefined
\* for the two remaining directions of each bouncer and for every square
\* that is no bouncer; reflecting twice gives the direction back; a cardinal
\* direction is reflected to a cardinal one, a diagonal to a diagonal.
C17_ReflectionTable ==
    LET listed ==
            [c \in BOUNCE_CHARS |->
                CASE c = CHAR_BACKSLASH ->
                        {{MOVE_N, MOVE_W}, {MOVE_E, MOVE_S}, {MOVE_NE, MOVE_SW}}
                  [] c = CHAR_SLASH ->
                        {{MOVE_N, MOVE_E}, {MOVE_W, MOVE_S}, {MOVE_NW, MOVE_SE}}
                  [] c = CHAR_HYPHEN ->
                        {{MOVE_N, MOVE_S}, {MOVE_NE, MOVE_SE}, {MOVE_NW, MOVE_SW}}
                  [] c = CHAR_PIPE ->
                        {{MOVE_E, MOVE_W}, {MOVE_NE, MOVE_NW}, {MOVE_SE, MOVE_SW}}]
        cardinal == {MOVE_N, MOVE_E, MOVE_S, MOVE_W}
        \* a square of every kind, and the squares of the board
        squares == {Square(char) : char \in CHARS}
                       \cup {board.squares[i] :
                                 i \in {k \in 1..Len(board.squares) :
                                           board.squares[k] # None}}
    IN  \A square \in squares :
            /\ \A dir \in MoveDirs :
                   LET r == get_bounce_dir(square, dir)
                   IN  /\ square.char \notin BOUNCE_CHARS => r = <<>>
                       /\ square.char \in BOUNCE_CHARS =>
                              IF \E pair \in listed[square.char] : dir \in pair
                              THEN \E pair \in listed[square.char] :
                                       /\ dir \in pair
                                       /\ r = <<CHOOSE d \in pair : d # dir>>
                              ELSE r = <<>>
                       /\ r # <<>> =>
                              /\ get_bounce_dir(square, r[1]) = <<dir>>
                              /\ (r[1] \in cardinal) = (dir \in cardinal)
            /\ square.char \in BOUNCE_CHARS =>
                   Cardinality({dir \in MoveDirs :
                                   get_bounce_dir(square, dir) = <<>>}) = 2

\* a walker has been through a bouncer and goes the way it was reflected
C17_Witness ==
    /\ gm.active
    /\ gm.line # None
    /\ \E m \in gm.st.checked :
           /\ get_square(board, m.x, m.y) # None
           /\ get_bounce_dir(get_square(board, m.x, m.y), m.dir) # <<>>
           /\ gm.line.cur.dir = get_bounce_dir(get_square(board, m.x, m.y), m.dir)[1]
           /\ gm.line.cur.dir # m.dir

\* no piece stands on a hole or on a solid square: the invariant of a cell
\* that the editor keeps and that get_moves relies on
CellInvariant(b) ==
    \A c \in Coords(b) : get_piece(b, c[1], c[2]) # None => ~is_solid_at(b, c[1], c[2])

C19_KnightRule ==
    (gm.done /\ piece_type(get_piece(board, gm.o.x0, gm.o.y0)) = "N") =>
        LET offsets == {d \in {-2, -1, 1, 2} \X {-2, -1, 1, 2} :
                           d[1] * d[1] + d[2] * d[2] = 5}
            tag(d) == CASE d[2] = -2 -> MOVE_N
                        [] d[2] = 2 -> MOVE_S
                        [] d[1] = -2 -> MOVE_W
                        [] d[1] = 2 -> MOVE_E
            open(x, y) ==
                /\ <<x, y>> \in Coords(board)
                /\ get_square(board, x, y) # None
                /\ get_square(board, x, y).char = CHAR_NORMAL
                /\ \/ get_piece(board, x, y) = None
                   \/ get_piece(board, x, y).team # gm.o.team
        IN  gm.st.moves =
                {Move(gm.o.x0 + d[1], gm.o.y0 + d[2], tag(d)) :
                    d \in {e \in offsets : open(gm.o.x0 + e[1], gm.o.y0 + e[2])}}

\* a knight with a bouncer on one target cell and an enemy, which it can
\* take, on another
C19_Witness ==
    /\ gm.done
    /\ piece_type(get_piece(board, gm.o.x0, gm.o.y0)) = "N"
    /\ \E m \in gm.st.moves : get_piece(board, m.x, m.y) # None
    /\ \E c \in Coords(board) :
           /\ (c[1] - gm.o.x0) * (c[1] - gm.o.x0)
                 + (c[2] - gm.o.y0) * (c[2] - gm.o.y0) = 5
           /\ get_square(board, c[1], c[2]) # None
           /\ get_square(board, c[1], c[2]).char \in BOUNCE_CHARS

\* C20: in the BoardState of a board, teams is the set of the teams that
\* have a piece on the board; pieces_and_moves_by_team and material_by_team
\* have those teams, and no other, as keys; the list of a team holds every
\* piece of the team once, in row-major order, each with the get_moves set
\* of its cell; and the counts of the team's histogram add up to the number
\* of its pieces.
C20_BoardStateInvariants ==
    last.op = "get_state_score" =>
        LET state == last.state
            cells(team) == {c \in Coords(board) :
                               /\ get_piece(board, c[1], c[2]) # None
                               /\ get_piece(board, c[1], c[2]).team = team}
            present == {team \in 0..(N_TEAMS - 1) : cells(team) # {}}
        IN  /\ state.err = "ok"
            /\ state.teams = present
            /\ DOMAIN state.pieces_and_moves_by_team = present
            /\ DOMAIN state.material_by_team = present
            /\ \A team \in present :
                   LET pairs == state.pieces_and_moves_by_team[team]
                       material == state.material_by_team[team]
                       at(i) == pairs[i][1].y * board.w + pairs[i][1].x
                   IN  /\ Len(pairs) = Cardinality(cells(team))
                       /\ \A i \in 1..Len(pairs) :
                              /\ <<pairs[i][1].x, pairs[i][1].y>> \in cells(team)
                              /\ pairs[i][1].piece
                                    = get_piece(board, pairs[i][1].x, pairs[i][1].y)
                              /\ pairs[i][2]
                                    = get_moves(board, pairs[i][1].x, pairs[i][1].y)
                              /\ \A j \in 1..Len(pairs) : i < j => at(i) < at(j)
                       /\ DOMAIN material = Range(PIECE_TYPES)
                       /\ SumInts([k \in 1..Len(PIECE_TYPES) |->
                                      material[PIECE_TYPES[k]]]) = Len(pairs)

\* the state of a board with three teams, one of them with several pieces;
\* the other teams have no entry
C20_Witness ==
    /\ last.op = "get_state_score"
    /\ last.err = "ok"
    /\ Cardinality(last.state.teams) = 3
    /\ \E team \in last.state.teams :
           Len(last.state.pieces_and_moves_by_team[team]) >= 2
    /\ \E team \in last.state.teams :
           \E i \in 1..Len(last.state.pieces_and_moves_by_team[team]) :
               last.state.pieces_and_moves_by_team[team][i][2] # {}

(***************************************************************************)
(* Properties of the rays, of the cells' invariant and of the pawn's      *)
(* Moves, checked under SpecMoves, SpecWalk and SpecEdit.                  *)
(***************************************************************************)
\* C21: on a board without bouncers the Moves of a rook (N, E, S, W), of a
\* bishop (NE, SE, SW, NW) or of a queen (all eight) are exactly, for each
\* of its directions d, the cells met stepping from the origin in d before
\* the first cell that is off the board, a hole, a solid square or holds a
\* piece of its team, and not past the first cell that holds an enemy
\* piece, which is itself a Move; each Move is tagged with d.
C21_SlidingRays ==
    (/\ gm.done
     /\ piece_type(get_piece(board, gm.o.x0, gm.o.y0)) \in {"Q", "R", "B"}
     /\ \A c \in Coords(board) :
            get_square(board, c[1], c[2]) = None
                \/ get_square(board, c[1], c[2]).char \notin BOUNCE_CHARS) =>
        LET kind == piece_type(get_piece(board, gm.o.x0, gm.o.y0))
            dirs == CASE kind = "R" -> {MOVE_N, MOVE_E, MOVE_S, MOVE_W}
                      [] kind = "B" -> {MOVE_NE, MOVE_SE, MOVE_SW, MOVE_NW}
                      [] kind = "Q" -> MoveDirs
            step(d, k) == <<gm.o.x0 + k * MOVE_DIRS_TO_COORDS[d + 1][1],
                            gm.o.y0 + k * MOVE_DIRS_TO_COORDS[d + 1][2]>>
            closed(c) ==
                \/ c \notin Coords(board)
                \/ get_square(board, c[1], c[2]) = None
                \/ get_square(board, c[1], c[2]).char # CHAR_NORMAL
                \/ /\ get_piece(board, c[1], c[2]) # None
                   /\ get_piece(board, c[1], c[2]).team = gm.o.team
            passable(c) == ~closed(c) /\ get_piece(board, c[1], c[2]) = None
            ray(d) == {k \in 1..(board.w + board.h) :
                          /\ ~closed(step(d, k))
                          /\ \A j \in 1..(k - 1) : passable(step(d, j))}
        IN  gm.st.moves =
                UNION {{Move(step(d, k)[1], step(d, k)[2], d) : k \in ray(d)} :
                          d \in dirs}

\* a slider takes an enemy on one ray and is stopped by a hole or by a piece
\* of its team on another
C21_Witness ==
    /\ gm.done
    /\ piece_type(get_piece(board, gm.o.x0, gm.o.y0)) \in {"Q", "R", "B"}
    /\ \A c \in Coords(board) :
           get_square(board, c[1], c[2]) = None
               \/ get_square(board, c[1], c[2]).char \notin BOUNCE_CHARS
    /\ \E m \in gm.st.moves : get_piece(board, m.x, m.y) # None
    /\ \E c \in Coords(board) :
           \/ get_square(board, c[1], c[2]) = None
           \/ /\ get_piece(board, c[1], c[2]) # None
              /\ c # <<gm.o.x0, gm.o.y0>>
              /\ get_piece(board, c[1], c[2]).team = gm.o.team

RECURSIVE FirstBeyondBounces(_, _, _, _, _)
\* where a walker that enters (x, y) going dir comes to rest when it follows
\* the reflections: <<the cell and the direction it has there>>, or <<>> when
\* it leaves the board or goes round for ever (steps counts the cells left)
FirstBeyondBounces(b, x, y, dir, steps) ==
    IF steps = 0 \/ <<x, y>> \notin Coords(b)
    THEN <<>>
    ELSE LET square == get_square(b, x, y)
             r == IF square = None THEN <<>> ELSE get_bounce_dir(square, dir)
         IN  IF r = <<>>
             THEN <<Move(x, y, dir)>>
             ELSE FirstBeyondBounces(b, x + MOVE_DIRS_TO_COORDS[r[1] + 1][1],
                                     y + MOVE_DIRS_TO_COORDS[r[1] + 1][2],
                                     r[1], steps - 1)

\* the doctest-like board of the reflected rook: 4x4 Normal squares, a
\* backslash at (0, 3), a rook at (2, 3)
ReflectedRookBoard ==
    set_piece(set_square(NewBoard(4, 4), 0, 3, Square(CHAR_BACKSLASH)).board,
              2, 3, Piece("R", 0)).board

\* C22: a walker that enters a bouncer reflecting its direction does not
\* make the cell a Move and does not count it; it goes on one step from the
\* bouncer in the reflected direction, and whatever an iteration adds is a
\* Move to the walker's cell with the walker's direction.  So a ray of the
\* king yields at most one Move, the first cell beyond the reflections, the
\* king at most 8; and the westward ray of a lone rook at (2, 3) on a 4x4
\* board with a backslash at (0, 3) yields (1,3,W), (0,2,N), (0,1,N), (0,0,N).
C22_BounceSemantics ==
    /\ (/\ gm.active
        /\ gm.line # None) =>
           LET cur == gm.line.cur
               it == check_line_iter(board, gm.o, gm.st, cur,
                                     gm.line.max_moves, gm.line.can_take)
               square == get_square(board, cur.x, cur.y)
           IN  /\ it.st.moves \ gm.st.moves \subseteq {Move(cur.x, cur.y, cur.dir)}
               /\ (/\ <<cur.x, cur.y>> \in Coords(board)
                   /\ Move(cur.x, cur.y, cur.dir) \notin gm.st.checked
                   /\ square # None
                   /\ get_bounce_dir(square, cur.dir) # <<>>) =>
                      LET r == get_bounce_dir(square, cur.dir)[1]
                      IN  /\ it.st.moves = gm.st.moves
                          /\ it.continue
                          /\ it.cur = [x |-> cur.x + MOVE_DIRS_TO_COORDS[r + 1][1],
                                       y |-> cur.y + MOVE_DIRS_TO_COORDS[r + 1][2],
                                       dir |-> r,
                                       n_moves |-> cur.n_moves]
    /\ (gm.done /\ piece_type(get_piece(board, gm.o.x0, gm.o.y0)) = "K") =>
           LET rest(d) == FirstBeyondBounces(board,
                              gm.o.x0 + MOVE_DIRS_TO_COORDS[d + 1][1],
                              gm.o.y0 + MOVE_DIRS_TO_COORDS[d + 1][2],
                              d, 8 * board.w * board.h + 1)
               open(m) == /\ get_square(board, m.x, m.y) # None
                          /\ get_square(board, m.x, m.y).char = CHAR_NORMAL
                          /\ \/ get_piece(board, m.x, m.y) = None
                             \/ get_piece(board, m.x, m.y).team # gm.o.team
                             \/ (m.x = gm.o.x0 /\ m.y = gm.o.y0)
               ray(d) == IF rest(d) # <<>> /\ open(rest(d)[1])
                         THEN {rest(d)[1]} ELSE {}
           IN  /\ \A d \in MoveDirs :
                      check_line(board, gm.o, EmptySets, d, <<1>>, CAN_TAKE).moves
                          = ray(d)
               /\ gm.st.moves = UNION {ray(d) : d \in MoveDirs}
               /\ Cardinality(gm.st.moves) <= 8
    /\ LET b == ReflectedRookBoard
           o == Origin(b, 2, 3)
           calls == get_moves_calls(get_piece(b, 2, 3), 2, 3)
           before == run_calls(b, o, EmptySets, SubSeq(calls, 1, 3))
       IN  /\ calls[4] = LineCall(MOVE_W, <<>>, CAN_TAKE)
           /\ check_line(b, o, before, MOVE_W, <<>>, CAN_TAKE).moves \ before.moves
                  = {Move(1, 3, MOVE_W), Move(0, 2, MOVE_N),
                     Move(0, 1, MOVE_N), Move(0, 0, MOVE_N)}

\* a king's call has returned a Move that a ray reached through a bouncer,
\* with the direction the bouncer gave it
C22_Witness ==
    /\ gm.done
    /\ piece_type(get_piece(board, gm.o.x0, gm.o.y0)) = "K"
    /\ \E m \in gm.st.moves :
           \/ m.x - gm.o.x0 \notin {-1, 0, 1}
           \/ m.y - gm.o.y0 \notin {-1, 0, 1}
           \/ (m.x = gm.o.x0 /\ m.y = gm.o.y0)

\* C23: from a board without a piece on a hole or on a solid square, the
\* square toggle and the piece toggle of the editor, scroll, resize and
\* apply of a Move taken from get_moves lead only to boards without a piece
\* on a hole or on a solid square.
C23_CellInvariantKept == CellInvariant(board)

\* a piece has moved, by a Move of get_moves, on a board that has another
\* piece and a bouncer
C23_Witness ==
    /\ last.op = "apply_legal"
    /\ last.err = "ok"
    /\ NumPieces(board) = 2
    /\ \E c \in Coords(board) :
           /\ get_square(board, c[1], c[2]) # None
           /\ get_square(board, c[1], c[2]).char \in BOUNCE_CHARS

\* C24: every Move generated for a pawn arrives in a cardinal direction: the
\* Moves of the two diagonal checks carry the pawn's forward direction, and
\* the reflections of the forward walk keep a cardinal direction cardinal.
\* So apply raises nothing for any Move generated for a pawn, and after a
\* diagonal capture the pawn faces the way it faced.
C24_PawnMovesCardinal ==
    (gm.done /\ piece_type(get_piece(board, gm.o.x0, gm.o.y0)) = "P") =>
        LET piece == get_piece(board, gm.o.x0, gm.o.y0)
            diagonal == run_calls(board, gm.o, EmptySets,
                            SubSeq(get_moves_calls(piece, gm.o.x0, gm.o.y0), 1, 2)).moves
            applied(m) == apply(board,
                              PieceMove(LocatedPiece(gm.o.x0, gm.o.y0, piece), m))
        IN  /\ \A m \in gm.st.moves :
                   /\ m.dir \in {MOVE_N, MOVE_E, MOVE_S, MOVE_W}
                   /\ applied(m).err = "ok"
                   /\ piece_type(get_piece(applied(m).board, m.x, m.y)) = "P"
            /\ \A m \in diagonal :
                   /\ m \in gm.st.moves
                   /\ m.dir = move_dir(piece)
                   /\ m.x # gm.o.x0 /\ m.y # gm.o.y0
                   /\ pawn_dir(get_piece(applied(m).board, m.x, m.y)) = pawn_dir(piece)

\* a pawn can take beside its path and has a Move that a bouncer turned
C24_Witness ==
    /\ gm.done
    /\ piece_type(get_piece(board, gm.o.x0, gm.o.y0)) = "P"
    /\ \E m \in gm.st.moves :
           /\ get_piece(board, m.x, m.y) # None
           /\ m.x # gm.o.x0 /\ m.y # gm.o.y0
    /\ \E m \in gm.st.moves : m.dir # move_dir(get_piece(board, gm.o.x0, gm.o.y0))

(* The failure of move, checked under Spec. *)

\* C25: a failed move is atomic: move and apply from a cell of the board
\* that holds a piece to a destination off the board fail with IndexError
\* and leave every cell as it was, the piece still at its source.
C25_FailedMoveAtomic ==
    \A lp \in Range(list_pieces(board)) :
        \A c1 \in {c \in ArgCoords(board) : coords_to_index(board, c[1], c[2]) = <<>>} :
            \A dir \in {d \in DirArgs(lp.piece) :
                           piece_type(lp.piece) = "P" /\ d # <<>>
                               => d[1] \in DOMAIN MOVE_DIRS_TO_PAWN_DIRS} :
                LET moved == move(board, lp.x, lp.y, c1[1], c1[2], dir)
                    applied == apply(board, PieceMove(lp,
                                   Move(c1[1], c1[2], IF dir = <<>> THEN MOVE_N ELSE dir[1])))
                IN  /\ moved.err = "IndexError"
                    /\ moved.board = board
                    /\ get_piece(moved.board, lp.x, lp.y) = lp.piece
                    /\ applied.err = "IndexError"
                    /\ applied.board = board

====
